---- MODULE Spec2Model ----
(***************************************************************************)
(* Order lifecycle of the Telegram -> MetaTrader bridge.                   *)
(*                                                                         *)
(*   app/core/logic.py   process_telegram_signal  (the Lifecycle Manager)  *)
(*   app/db/models.py    Order, add_order, update_order_status,            *)
(*                       get_order_by_telegram_id (the Persistence Gateway)*)
(*   app/telegram_bot/bot.py   parse_message (the Signal Parser)           *)
(*   app/mt5/connector.py      place_order (the Execution Backend)         *)
(*   main.py             on_start_bot, on_stop_bot (the application)       *)
(*                                                                         *)
(* Spec     : one worker calling process_telegram_signal again and again,  *)
(*            each call run to completion before the next (the scheduling  *)
(*            of the design), one step per persistence / backend call,     *)
(*            with collaborator failures.                                  *)
(* SpecConc : MaxCalls invocations submitted concurrently.                 *)
(* SpecDb   : the persistence functions called directly, in any order.     *)
(* SpecBot  : telegram_bot/bot.py parse_message on one message, a step per *)
(*            line of the message.                                         *)
(* SpecMt5  : mt5/connector.py place_order, a step per MetaTrader5 call.   *)
(* SpecApp  : main.py, the Start Bot / Stop Bot handlers and the bot       *)
(*            threads they start.                                          *)
(*                                                                         *)
(* Python values: an Optional is None == <<>> or Some(v) == <<v>>; a       *)
(* run-time string is a sequence of one-character strings; a float is an   *)
(* integer number of hundredths.                                           *)
(***************************************************************************)
EXTENDS Integers, Sequences, FiniteSets, TLC

\* ------------------------------------------------------------------ bounds
MaxCalls   == 2      \* concurrent invocations of process_telegram_signal (SpecConc)
MaxFaults  == 1      \* collaborator calls that raise, over a whole run
MaxDbCalls == 4      \* direct persistence calls (SpecDb)
MaxStarts  == 3      \* bot threads started by Start Bot (SpecApp)

\* ------------------------------------------------------- Python value model
None      == <<>>
Some(v)   == <<v>>
IsNone(o) == o = <<>>
Val(o)    == o[1]

Min(a, b) == IF a <= b THEN a ELSE b

Digits == {"0", "1", "2", "3", "4", "5", "6", "7", "8", "9"}

DigitVal(c) ==
    CASE c = "0" -> 0 [] c = "1" -> 1 [] c = "2" -> 2 [] c = "3" -> 3
      [] c = "4" -> 4 [] c = "5" -> 5 [] c = "6" -> 6 [] c = "7" -> 7
      [] c = "8" -> 8 [] c = "9" -> 9

RECURSIVE DigitsToNat(_)
DigitsToNat(s) ==
    IF Len(s) = 0 THEN 0
    ELSE 10 * DigitsToNat(SubSeq(s, 1, Len(s) - 1)) + DigitVal(s[Len(s)])

\* The unsigned part of a float literal: the text after an optional sign.
Unsigned(s) == IF Len(s) > 0 /\ s[1] \in {"-", "+"} THEN Tail(s) ELSE s

\* float(text) succeeds: optional sign, digits with at most one point, at
\* least one digit.  (Over the characters used here this is Python's rule.)
IsFloatText(s) ==
    LET b == Unsigned(s) IN
    /\ \A i \in 1..Len(b) : b[i] \in Digits \cup {"."}
    /\ Cardinality({i \in 1..Len(b) : b[i] = "."}) <= 1
    /\ \E i \in 1..Len(b) : b[i] \in Digits

\* The value of a float literal, in hundredths.
FloatValue(s) ==
    LET b    == Unsigned(s)
        dot  == IF \E i \in 1..Len(b) : b[i] = "."
                THEN CHOOSE i \in 1..Len(b) : b[i] = "." ELSE Len(b) + 1
        ip   == SubSeq(b, 1, dot - 1)
        fr   == SubSeq(b, dot + 1, Len(b))
        fr2  == SubSeq(fr \o <<"0", "0">>, 1, 2)
        mag  == 100 * DigitsToNat(ip) + DigitsToNat(fr2)
    IN  IF Len(s) > 0 /\ s[1] = "-" THEN 0 - mag ELSE mag

\* float(x) for a string x: Some(value), or None when it raises ValueError.
PyFloat(s) == IF IsFloatText(s) THEN Some(FloatValue(s)) ELSE None

\* A raw telegram_message_id as the caller supplies it: absent, an int (the
\* bot passes update.message.message_id) or a string.
IdNone    == [t |-> "none", i |-> 0, s |-> ""]
IdInt(n)  == [t |-> "int",  i |-> n, s |-> ""]
IdStr(x)  == [t |-> "str",  i |-> 0, s |-> x]

\* (mutant of Truthy: `is not None` instead of truthiness)
NotNone(id) == id.t # "none"

\* Python truthiness of a raw id: None, 0 and "" are falsy.
Truthy(id) ==
    CASE id.t = "none" -> FALSE
      [] id.t = "int"  -> id.i # 0
      [] id.t = "str"  -> id.s # ""

\* str(id)
Str(id) ==
    CASE id.t = "none" -> "None"
      [] id.t = "int"  -> ToString(id.i)
      [] id.t = "str"  -> id.s

\* ------------------------------------------------------------ input domains
MissingIds == {IdNone, IdInt(0), IdStr("")}
Actions    == {"Buy", "Sell"}

\* The stop-loss / take-profit parts of a signal: each stop-loss with no
\* take-profits, each take-profit list with no stop-loss, both unparseable,
\* both parseable.
\* The "volume" key of a signal is missing (None), present with the value
\* None (Some(None)) or present with a number of hundredths (Some(Some(n))).
Data(sl, tps) == [sl |-> sl, tps |-> tps, volume |-> None]
BaseData == Data(None, None)
DataVariants ==
    {Data(sl, None) : sl \in {None, Some(<<>>), Some(<<"x">>), Some(<<"7", ".", "5">>)}}
    \cup {Data(None, tps) :
             tps \in {Some(<<>>), Some(<<<<"x">>, <<"7">>>>), Some(<<<<"7">>, <<"x">>>>)}}
    \cup {Data(Some(<<"x">>), Some(<<<<"x">>, <<"7">>>>)),
          Data(Some(<<"7", ".", "5">>), Some(<<<<"7">>, <<"x">>>>))}

\* Volumes given on the signal: None, zero.
VolumeVariants ==
    {[sl |-> None, tps |-> None, volume |-> Some(v)] : v \in {None, Some(0)}}

\* Stop-loss / take-profit texts that are numbers, but not positive ones.
LevelVariants ==
    { Data(Some(<<"0">>), Some(<<<<"7">>>>)),
      Data(Some(<<"-", "5">>), Some(<<<<"0">>, <<"7">>>>)) }

Sig(id, action, v) ==
    [telegram_message_id |-> id, action |-> action, sl |-> v.sl, tps |-> v.tps,
     volume |-> v.volume]

\* parsed_data, the argument of process_telegram_signal.  "7" and 7 are two
\* raw ids with the same key; "8" is another key.
Signals ==
    {Sig(IdStr("7"), "Buy", v) : v \in DataVariants}
    \cup {Sig(IdInt(7), "Sell", v) : v \in {BaseData, Data(Some(<<"x">>), None)}}
    \cup {Sig(IdStr("8"), "Sell", v) : v \in {BaseData, Data(Some(<<"x">>), None)}}
    \cup {Sig(IdStr("8"), "Sell", v) : v \in VolumeVariants \cup LevelVariants}
    \cup {Sig(id, "Buy", BaseData) : id \in MissingIds}

\* What place_order hands back: None, or a dict whose order_id / comment /
\* price keys may be missing.
BackendResults ==
    { None,
      Some([order_id |-> None,     comment |-> Some(<<>>),    price |-> None]),
      Some([order_id |-> Some(0),  comment |-> Some(<<"r">>), price |-> Some(0)]),
      Some([order_id |-> Some(55), comment |-> Some(<<"d">>), price |-> Some(750)]) }

\* The signals submitted concurrently: two raw ids with one key and differing
\* fields, another key, a missing id.
RaceSignals ==
    { Sig(IdStr("7"), "Buy",  BaseData),
      Sig(IdStr("7"), "Buy",  Data(Some(<<"7", ".", "5">>), Some(<<<<"7">>, <<"x">>>>))),
      Sig(IdInt(7),   "Sell", Data(Some(<<"x">>), None)),
      Sig(IdStr("8"), "Sell", BaseData),
      Sig(IdNone,     "Buy",  BaseData) }

Statuses == {"pending", "executed", "failed", "error"}

\* ------------------------------------------------------------------- state
VARIABLES
    orders,         \* the orders table: orders[i] is the row with id i
    clock,          \* datetime.utcnow(), as a logical clock
    pc,             \* per invocation: where it stands in process_telegram_signal
    parsed_data,    \* per invocation: its argument (reset when it returns)
    msg_id,         \* per invocation: telegram_message_id it was called with
    session,        \* per invocation: "none" | "open" | "closed"
    new_order_id,   \* per invocation: Optional[int]
    exc,            \* per invocation: text of the exception the guard caught
    propagated,     \* per invocation: text of the exception that left the call
    nfaults,        \* collaborator failures so far
    backendCalls,   \* history: the place_order calls made
    backendReturns, \* history: what place_order returned, per order id
    statusWrites,   \* history: the committed update_order_status writes
    dbRet,          \* SpecDb: outcome of the last direct persistence call
    bot_pc,             \* parse_message: "idle" | "loop" | "returned"
    lines,              \* parse_message: message_text.split('\n')
    message_id,         \* parse_message: its message_id argument
    line_no,            \* parse_message: index of the line the loop is at
    signal_match_found, \* parse_message: a header line was honoured
    bot_data,           \* parse_message: the parsed_data dict being filled
    parse_ret,          \* parse_message: what it returned (None, or Some(dict))
    po_pc,          \* place_order: where the call stands
    po_args,        \* place_order: order_type, volume, sl, tp
    symbol_info,    \* place_order: None, or Some([visible |-> ...])
    current_tick,   \* place_order: None, or Some([ask |-> ..., bid |-> ...])
    request,        \* place_order: the request dict, once built
    sent,           \* place_order: the requests handed to mt5.order_send
    send_result,    \* place_order: what mt5.order_send returned
    last_error,     \* place_order: what mt5.last_error() returned after it
    po_ret,         \* place_order: what it returned
    mt5_calls,      \* place_order: the MetaTrader5 functions it called, in order
    start_bot_button,       \* main: the Start Bot button is enabled
    stop_bot_button,        \* main: the Stop Bot button is enabled
    stop_bot_event,         \* main: the threading.Event is set
    bot_thread,             \* main: None, or Some(index into threads)
    mt5_initialized_by_bot, \* main: the global flag
    mt5_connected,          \* main: the terminal connection is up
    threads,                \* main: the bot threads started: "polling" | "finished"
    delivered               \* main: history of the signals handed to the callback

botVars == <<bot_pc, lines, message_id, line_no, signal_match_found, bot_data, parse_ret>>

mt5Vars == <<po_pc, po_args, symbol_info, current_tick, request, sent, send_result,
             last_error, po_ret, mt5_calls>>

appVars == <<start_bot_button, stop_bot_button, stop_bot_event, bot_thread,
             mt5_initialized_by_bot, mt5_connected, threads, delivered>>

vars == <<orders, clock, pc, parsed_data, msg_id, session, new_order_id, exc,
          propagated, nfaults, backendCalls, backendReturns, statusWrites, dbRet,
          botVars, mt5Vars, appVars>>

Procs == 1..MaxCalls

NoSignal == Sig(IdNone, "Buy", BaseData)

\* pc of an invocation that is over: the exit it took ("session_failed":
\* SessionLocal() raised, before the try).
Exits == {"return_missing_id", "return_duplicate", "return_add_failed",
          "return_invalid_sl", "return_invalid_tp", "end", "end_guarded",
          "session_failed"}

NoArgs == [mt5 |-> None, price |-> None, msg |-> None]

NoCall == [n |-> 0, op |-> "none", id |-> 0, status |-> "", args |-> NoArgs, ret |-> ""]

\* parse_message, line 21: the dict it starts from.  A key that is not in the
\* dict is None; "tps" starts as the empty list.
NewParsedData(id) ==
    [tps |-> Some(<<>>), telegram_message_id |-> id, instrument |-> None,
     action |-> None, entry_range |-> None, sl |-> None]

\* No place_order call yet.
NoPoArgs == [order_type |-> <<>>, volume |-> 0, sl |-> None, tp |-> None]

Init ==
    /\ orders = <<>>
    /\ clock = 1
    /\ pc = [p \in Procs |-> "idle"]
    /\ parsed_data = [p \in Procs |-> NoSignal]
    /\ msg_id = [p \in Procs |-> IdNone]
    /\ session = [p \in Procs |-> "none"]
    /\ new_order_id = [p \in Procs |-> None]
    /\ exc = [p \in Procs |-> None]
    /\ propagated = [p \in Procs |-> None]
    /\ nfaults = 0
    /\ backendCalls = {}
    /\ backendReturns = {}
    /\ statusWrites = {}
    /\ dbRet = NoCall
    /\ bot_pc = "idle"
    /\ lines = <<>>
    /\ message_id = 0
    /\ line_no = 0
    /\ signal_match_found = FALSE
    /\ bot_data = NewParsedData(0)
    /\ parse_ret = None
    /\ po_pc = "idle"
    /\ po_args = NoPoArgs
    /\ symbol_info = None
    /\ current_tick = None
    /\ request = None
    /\ sent = <<>>
    /\ send_result = None
    /\ last_error = [code |-> 0, description |-> <<>>]
    /\ po_ret = None
    /\ mt5_calls = <<>>
    /\ start_bot_button = TRUE
    /\ stop_bot_button = FALSE
    /\ stop_bot_event = FALSE
    /\ bot_thread = None
    /\ mt5_initialized_by_bot = FALSE
    /\ mt5_connected = FALSE
    /\ threads = <<>>
    /\ delivered = {}

\* ---------------------------------------------------- persistence gateway
\* The default lot, 0.01, in hundredths.
DefaultVolume == 1

\* float(order_data.get("volume", 0.01)): Some(value), or None when float()
\* raises TypeError (the key is present and its value is None).
AddOrderVolume(d) ==
    IF IsNone(d.volume) THEN Some(DefaultVolume) ELSE Val(d.volume)

\* (mutant of NewOrder: the row is created without its initial status)
NewOrderNoStatus(d) ==
    [ telegram_message_id |-> Str(d.telegram_message_id),
      action              |-> d.action,
      tps                 |-> d.tps,
      sl                  |-> IF IsNone(d.sl) THEN None ELSE Some(Val(d.sl)),
      volume              |-> Val(AddOrderVolume(d)),
      mt5_order_id        |-> None,
      status              |-> "",
      status_message      |-> None,
      executed_price      |-> None,
      executed_time       |-> None ]

\* Order(...) as add_order builds it (only when float(volume) did not raise).
NewOrder(d) ==
    [ telegram_message_id |-> Str(d.telegram_message_id),
      action              |-> d.action,
      tps                 |-> d.tps,
      sl                  |-> IF IsNone(d.sl) THEN None ELSE Some(Val(d.sl)),
      volume              |-> Val(AddOrderVolume(d)),
      mt5_order_id        |-> None,
      status              |-> "pending",
      status_message      |-> None,
      executed_price      |-> None,
      executed_time       |-> None ]

\* (mutant of RowsWithKey: an Order that failed does not count)
RowsWithKeyNotFailed(os, key) ==
    {i \in 1..Len(os) : os[i].telegram_message_id = key
                        /\ os[i].status \notin {"failed", "error"}}

\* get_order_by_telegram_id: the ids of the rows with that key (.first()).
RowsWithKey(os, key) == {i \in 1..Len(os) : os[i].telegram_message_id = key}

\* (mutant of get_order_by_telegram_id: the id is not converted with str())
get_order_by_raw_id(os, id) ==
    LET rows == RowsWithKey(os, id.s) IN
    IF rows = {} THEN None ELSE Some(CHOOSE i \in rows : \A j \in rows : i <= j)

get_order_by_telegram_id(os, id) ==
    LET rows == RowsWithKey(os, Str(id)) IN
    IF rows = {} THEN None ELSE Some(CHOOSE i \in rows : \A j \in rows : i <= j)

\* (mutant of ViolatesUnique: the column is not declared unique)
NoUniqueConstraint(os, row) == FALSE

\* The unique constraint on Order.telegram_message_id, checked at commit.
ViolatesUnique(os, row) == RowsWithKey(os, row.telegram_message_id) # {}

\* status.lower()
Lower(s) == CASE s = "EXECUTED" -> "executed" [] s = "Executed" -> "executed" [] OTHER -> s

\* (mutant of UpdatedRow: executed_time is stamped on every `executed`)
UpdatedRowRestamp(row, mt5_order_id, status, executed_price, status_message, now) ==
    [ row EXCEPT
        !.status         = status,
        !.mt5_order_id   = IF IsNone(mt5_order_id) THEN @ ELSE mt5_order_id,
        !.executed_price = IF IsNone(executed_price) THEN @ ELSE executed_price,
        !.status_message = IF IsNone(status_message) THEN @ ELSE status_message,
        !.executed_time  = IF Lower(status) = "executed" THEN Some(now) ELSE @ ]

\* The row update_order_status commits.
UpdatedRow(row, mt5_order_id, status, executed_price, status_message, now) ==
    [ row EXCEPT
        !.status         = status,
        !.mt5_order_id   = IF IsNone(mt5_order_id) THEN @ ELSE mt5_order_id,
        !.executed_price = IF IsNone(executed_price) THEN @ ELSE executed_price,
        !.status_message = IF IsNone(status_message) THEN @ ELSE status_message,
        !.executed_time  = IF Lower(status) = "executed" /\ IsNone(@)
                           THEN Some(now) ELSE @ ]

\* (mutant of UpdateOrderStatus: the query has no filter on Order.id)
UpdateOrderStatusAll(os, order_id, mt5_order_id, status, executed_price, status_message, now) ==
    [i \in 1..Len(os) |->
        UpdatedRow(os[i], mt5_order_id, status, executed_price, status_message, now)]

\* (mutant of UpdateOrderStatus: an unknown id falls back to the last row)
UpdateOrderStatusNearest(os, order_id, mt5_order_id, status, executed_price, status_message, now) ==
    IF Len(os) = 0
    THEN os
    ELSE [os EXCEPT ![Min(order_id, Len(os))] =
             UpdatedRow(@, mt5_order_id, status, executed_price, status_message, now)]

\* The table after update_order_status commits (unchanged for an unknown id).
UpdateOrderStatus(os, order_id, mt5_order_id, status, executed_price, status_message, now) ==
    IF order_id \in 1..Len(os)
    THEN [os EXCEPT ![order_id] =
             UpdatedRow(@, mt5_order_id, status, executed_price, status_message, now)]
    ELSE os


\* ------------------------------------------------------ lifecycle manager
\* A status message: a literal prefix followed by a run-time text.
Msg(prefix, arg) == Some([prefix |-> prefix, arg |-> arg])

ErrMsgLimit == 250

DbErrorText      == <<"d", "b">>      \* str(e) of a persistence failure
BackendErrorText == <<"m", "t">>      \* str(e) of an exception out of place_order
SessionErrorText == <<"s", "e">>      \* str(e) of an exception out of SessionLocal()
CloseErrorText   == <<"c", "l">>      \* str(e) of an exception out of db.close()

\* `if new_order_obj.sl:` -- a stop-loss that is set and not the empty string
SlPresent(row) == ~IsNone(row.sl) /\ Val(row.sl) # <<>>

\* `if new_order_obj.tps and isinstance(..., list) and len(...) > 0:`
TpPresent(row) == ~IsNone(row.tps) /\ Len(Val(row.tps)) > 0

\* sl_price / tp_price: None when not set, else float(...) (None: it raised)
SlPrice(row) == IF SlPresent(row) THEN PyFloat(Val(row.sl)) ELSE None

\* (mutant of TpPrice: the last take-profit is sent)
TpPriceLast(row) ==
    IF TpPresent(row) THEN PyFloat(Val(row.tps)[Len(Val(row.tps))]) ELSE None

TpPrice(row) == IF TpPresent(row) THEN PyFloat(Val(row.tps)[1]) ELSE None

\* (mutant of RequestLevel: the level is put in the request whatever its sign)
RequestLevelUnchecked(x) == x

\* place_order: request["sl"] / request["tp"] is set only for a level that is
\* given and positive.
RequestLevel(x) == IF ~IsNone(x) /\ Val(x) > 0 THEN x ELSE None

\* (mutant of SlInvalid: the ValueError of float(sl) is swallowed)
SlNeverInvalid(row) == FALSE

\* (mutant of TpInvalid: the last take-profit is converted, not the first)
TpInvalidLast(row) ==
    TpPresent(row) /\ IsNone(PyFloat(Val(row.tps)[Len(Val(row.tps))]))

\* (mutant of SlInvalid: the take-profit is converted first)
SlAfterTp(row) ==
    /\ SlPresent(row) /\ IsNone(PyFloat(Val(row.sl)))
    /\ ~(TpPresent(row) /\ IsNone(PyFloat(Val(row.tps)[1])))

SlInvalid(row) == SlPresent(row) /\ IsNone(PyFloat(Val(row.sl)))
TpInvalid(row) == TpPresent(row) /\ IsNone(PyFloat(Val(row.tps)[1]))

SlMessage(sl) == Msg("Invalid SL value: ", sl)
TpMessage(tp) == Msg("Invalid TP value: ", tp)

\* (mutant of BackendSucceeded: `if mt5_result:`)
AnyResultSucceeds(r) == ~IsNone(r)

\* `if mt5_result and mt5_result.get("order_id"):`
BackendSucceeded(r) ==
    /\ ~IsNone(r)
    /\ ~IsNone(Val(r).order_id)
    /\ Val(Val(r).order_id) # 0

GenericFailure == Msg("MT5 order execution failed. Check MT5 connector logs.", <<>>)

\* (mutant of FailureMessage: the backend comment is not used)
AlwaysGeneric(r) == GenericFailure

\* error_message of the failure branch
FailureMessage(r) ==
    IF ~IsNone(r) /\ ~IsNone(Val(r).comment) /\ Val(Val(r).comment) # <<>>
    THEN Msg("MT5 order failed: ", Val(Val(r).comment))
    ELSE GenericFailure

SuccessMessage == Msg("Order executed successfully.", <<>>)

\* (mutant of GuardMayWrite: the guard writes without looking)
GuardAlwaysWrites(current_status) == TRUE

\* (mutant of GuardMayWrite: the guard never writes)
GuardNeverWrites(current_status) == FALSE

\* `if current_status not in ["executed", "failed"]:`
GuardMayWrite(current_status) == current_status \notin {"executed", "failed"}

\* (mutant of ErrorMessage: the guard passes no status_message)
ErrorMessageNone(e) == None

\* f"Core logic processing error: {str(e)[:250]}"
ErrorMessage(e) ==
    Msg("Core logic processing error: ", SubSeq(e, 1, Min(Len(e), ErrMsgLimit)))

\* (mutant of Return: no `finally: db.close()`)
ReturnNoClose(p, exit, f) ==
    /\ pc' = [pc EXCEPT ![p] = exit]
    /\ parsed_data' = [parsed_data EXCEPT ![p] = NoSignal]
    /\ exc' = [exc EXCEPT ![p] = None]
    /\ nfaults' = nfaults + f
    /\ UNCHANGED <<session, propagated>>

\* The function leaves through `finally: db.close()`; its frame is gone.  f
\* is the number of collaborator calls that raised earlier in this step.
\* db.close() returns, or raises: nothing catches that, and the session is
\* left in either state.
Return(p, exit, f) ==
    /\ pc' = [pc EXCEPT ![p] = exit]
    /\ parsed_data' = [parsed_data EXCEPT ![p] = NoSignal]
    /\ exc' = [exc EXCEPT ![p] = None]
    /\ \/ /\ nfaults' = nfaults + f
          /\ session' = [session EXCEPT ![p] = "closed"]
          /\ UNCHANGED propagated
       \/ /\ nfaults + f < MaxFaults
          /\ nfaults' = nfaults + f + 1
          /\ \E s \in {"open", "closed"} : session' = [session EXCEPT ![p] = s]
          /\ propagated' = [propagated EXCEPT ![p] = Some(CloseErrorText)]

\* An exception reaches `except Exception as e:` of process_telegram_signal.
Raise(p, text) ==
    /\ pc' = [pc EXCEPT ![p] = "guard"]
    /\ exc' = [exc EXCEPT ![p] = Some(text)]
    /\ UNCHANGED <<session, parsed_data, propagated>>

\* A collaborator call may raise.
MayFault == nfaults < MaxFaults

\* A collaborator call raises.
Fault == MayFault /\ nfaults' = nfaults + 1

\* (mutant of OrderId: the id of the latest row, not of the row inserted)
LatestOrderId(p) == Len(orders)

\* order_id=new_order_id, the argument of every update_order_status call
OrderId(p) == Val(new_order_id[p])

\* utcnow() is read only to stamp executed_time; the clock ticks past each stamp.
Tick(before, after) ==
    clock' = IF \E i \in 1..Len(before) : before[i].executed_time # after[i].executed_time
             THEN clock + 1 ELSE clock

Committed(p, after, status) ==
    /\ orders' = after
    /\ Tick(orders, after)
    /\ statusWrites' = statusWrites \cup
           {[by |-> p, id |-> OrderId(p), status |-> status]}

\* A call update_order_status(db, order_id=new_order_id, ...) inside the outer
\* try: it commits and returns, or raises before or after its commit took
\* effect (commit / refresh failing).
StatusUpdate(p, mt5_order_id, status, executed_price, status_message, exit) ==
    LET after == UpdateOrderStatus(orders, OrderId(p), mt5_order_id,
                                   status, executed_price, status_message, clock)
    IN  \/ /\ Committed(p, after, status)
           /\ Return(p, exit, 0)
        \/ /\ Fault
           /\ UNCHANGED <<orders, clock, statusWrites>>
           /\ Raise(p, DbErrorText)
        \/ /\ Fault
           /\ Committed(p, after, status)
           /\ Raise(p, DbErrorText)

\* Lines 21-28: the missing-identifier guard, then SessionLocal(), which is
\* called before the try: an exception out of it leaves the function.
Start(p, d) ==
    /\ msg_id' = [msg_id EXCEPT ![p] = d.telegram_message_id]
    /\ new_order_id' = [new_order_id EXCEPT ![p] = None]
    /\ IF ~Truthy(d.telegram_message_id)
       THEN /\ pc' = [pc EXCEPT ![p] = "return_missing_id"]
            /\ session' = [session EXCEPT ![p] = "none"]
            /\ propagated' = [propagated EXCEPT ![p] = None]
            /\ UNCHANGED <<parsed_data, nfaults>>
       ELSE \/ /\ pc' = [pc EXCEPT ![p] = "dedup"]
               /\ parsed_data' = [parsed_data EXCEPT ![p] = d]
               /\ session' = [session EXCEPT ![p] = "open"]
               /\ propagated' = [propagated EXCEPT ![p] = None]
               /\ UNCHANGED nfaults
            \/ /\ Fault
               /\ pc' = [pc EXCEPT ![p] = "session_failed"]
               /\ session' = [session EXCEPT ![p] = "none"]
               /\ propagated' = [propagated EXCEPT ![p] = Some(SessionErrorText)]
               /\ UNCHANGED parsed_data
    /\ UNCHANGED <<orders, clock, exc, backendCalls, backendReturns,
                   statusWrites, dbRet, botVars, mt5Vars, appVars>>

\* The worker takes the next signal once the previous call has returned.
Accept(d) ==
    /\ pc[1] \in {"idle"} \cup Exits
    /\ Start(1, d)

\* Invocation p is submitted, whatever the earlier ones are doing.
Begin(p, d) ==
    /\ pc[p] = "idle"
    /\ \A q \in Procs : q < p => pc[q] # "idle"
    /\ Start(p, d)

\* Lines 32-36: the duplicate check.
Dedup(p) ==
    /\ pc[p] = "dedup"
    /\ \/ IF IsNone(get_order_by_telegram_id(orders, msg_id[p]))
          THEN /\ pc' = [pc EXCEPT ![p] = "add"]
               /\ UNCHANGED <<session, parsed_data, exc, propagated, nfaults>>
          ELSE Return(p, "return_duplicate", 0)
       \/ \* the query raises
          /\ Fault
          /\ Raise(p, DbErrorText)
    /\ UNCHANGED <<orders, clock, msg_id, new_order_id, backendCalls, backendReturns,
                   statusWrites, dbRet, botVars, mt5Vars, appVars>>

\* (mutant of AddFailed: no inner try; the error reaches the outer handler)
AddFailedUnexpected(p, f) == nfaults' = nfaults + f /\ Raise(p, DbErrorText)

\* Lines 48-51: add_order raised; log, rollback, return.
AddFailed(p, f) == Return(p, "return_add_failed", f)

\* Lines 38-57 with add_order: build the Order, insert it and commit.
Admit(p) ==
    /\ pc[p] = "add"
    /\ IF IsNone(AddOrderVolume(parsed_data[p]))
       THEN \* float(None) raises TypeError while the Order is built
            /\ AddFailed(p, 0)
            /\ UNCHANGED <<orders, new_order_id>>
       ELSE LET row == NewOrder(parsed_data[p]) IN
            \/ \* commit rejected by the unique constraint: rollback, return
               /\ ViolatesUnique(orders, row)
               /\ AddFailed(p, 0)
               /\ UNCHANGED <<orders, new_order_id>>
            \/ /\ ~ViolatesUnique(orders, row)
               /\ orders' = Append(orders, row)
               /\ new_order_id' = [new_order_id EXCEPT ![p] = Some(Len(orders) + 1)]
               /\ pc' = [pc EXCEPT ![p] = "resolve"]
               /\ UNCHANGED <<session, parsed_data, exc, propagated, nfaults>>
            \/ \* add_order raises before its commit took effect
               /\ MayFault
               /\ AddFailed(p, 1)
               /\ UNCHANGED <<orders, new_order_id>>
            \/ \* add_order raises after its commit took effect (refresh fails)
               /\ MayFault
               /\ ~ViolatesUnique(orders, row)
               /\ orders' = Append(orders, row)
               /\ AddFailed(p, 1)
               /\ UNCHANGED new_order_id
    /\ UNCHANGED <<clock, msg_id, backendCalls, backendReturns, statusWrites, dbRet, botVars, mt5Vars, appVars>>

\* Lines 59-95: convert the stop-loss, then the first take-profit; reject the
\* order if either fails, else call place_order (request_sl / request_tp: what
\* place_order, connector.py 120-135, puts in the request it builds).
Resolve(p) ==
    /\ pc[p] = "resolve"
    /\ LET row == orders[Val(new_order_id[p])] IN
       IF SlInvalid(row)
       THEN /\ StatusUpdate(p, None, "failed", None, SlMessage(Val(row.sl)),
                            "return_invalid_sl")
            /\ UNCHANGED backendCalls
       ELSE IF TpInvalid(row)
       THEN /\ StatusUpdate(p, None, "failed", None, TpMessage(Val(row.tps)[1]),
                            "return_invalid_tp")
            /\ UNCHANGED backendCalls
       ELSE /\ backendCalls' = backendCalls \cup
                   {[ by         |-> p,
                      id         |-> Val(new_order_id[p]),
                      order_type |-> row.action,
                      volume     |-> row.volume,
                      sl         |-> SlPrice(row),
                      tp         |-> TpPrice(row),
                      request_sl |-> RequestLevel(SlPrice(row)),
                      request_tp |-> RequestLevel(TpPrice(row)) ]}
            /\ pc' = [pc EXCEPT ![p] = "called"]
            /\ UNCHANGED <<orders, clock, session, parsed_data, exc, propagated,
                           nfaults, statusWrites>>
    /\ UNCHANGED <<msg_id, new_order_id, backendReturns, dbRet, botVars, mt5Vars, appVars>>

\* place_order returns (or raises); lines 97-121 record the outcome.
Apply(p) ==
    /\ pc[p] = "called"
    /\ \/ \E r \in BackendResults :
             /\ backendReturns' = backendReturns \cup
                    {[id |-> Val(new_order_id[p]), result |-> r]}
             /\ IF BackendSucceeded(r)
                THEN StatusUpdate(p, Val(r).order_id, "executed", Val(r).price,
                                  SuccessMessage, "end")
                ELSE StatusUpdate(p, None, "failed", None, FailureMessage(r), "end")
       \/ /\ Fault
          /\ Raise(p, BackendErrorText)
          /\ UNCHANGED <<orders, clock, statusWrites, backendReturns>>
    /\ UNCHANGED <<msg_id, new_order_id, backendCalls, dbRet, botVars, mt5Vars, appVars>>

\* Lines 123-129: nothing to do if no order was added; else the guard
\* re-reads the persisted status.
GuardRead(p) ==
    /\ pc[p] = "guard"
    /\ IF IsNone(new_order_id[p])
       THEN Return(p, "end_guarded", 0)
       ELSE \/ IF GuardMayWrite(orders[Val(new_order_id[p])].status)
               THEN /\ pc' = [pc EXCEPT ![p] = "guardwrite"]
                    /\ UNCHANGED <<session, parsed_data, exc, propagated, nfaults>>
               ELSE Return(p, "end_guarded", 0)
            \/ \* the re-read raises: logged by the inner except
               /\ MayFault
               /\ Return(p, "end_guarded", 1)
    /\ UNCHANGED <<orders, clock, msg_id, new_order_id, backendCalls, backendReturns,
                   statusWrites, dbRet, botVars, mt5Vars, appVars>>

\* Lines 130-132: the guard writes `error`; a failure of that write is logged.
GuardWrite(p) ==
    /\ pc[p] = "guardwrite"
    /\ LET after == UpdateOrderStatus(orders, OrderId(p), None, "error",
                                      None, ErrorMessage(Val(exc[p])), clock)
       IN  \/ /\ Committed(p, after, "error")
              /\ Return(p, "end_guarded", 0)
           \/ /\ MayFault
              /\ UNCHANGED <<orders, clock, statusWrites>>
              /\ Return(p, "end_guarded", 1)
           \/ /\ MayFault
              /\ Committed(p, after, "error")
              /\ Return(p, "end_guarded", 1)
    /\ UNCHANGED <<msg_id, new_order_id, backendCalls, backendReturns, dbRet, botVars, mt5Vars, appVars>>

Step ==
    \/ \E p \in Procs : Dedup(p)
    \/ \E p \in Procs : Admit(p)
    \/ \E p \in Procs : Resolve(p)
    \/ \E p \in Procs : Apply(p)
    \/ \E p \in Procs : GuardRead(p)
    \/ \E p \in Procs : GuardWrite(p)

Next ==
    \/ \E d \in Signals : Accept(d)
    \/ Step

Spec == Init /\ [][Next]_vars

NextConc ==
    \/ \E p \in Procs, d \in RaceSignals : Begin(p, d)
    \/ Step

SpecConc == Init /\ [][NextConc]_vars

\* ------------------------------------------- the gateway, called directly
NotLifecycle == <<pc, parsed_data, msg_id, session, new_order_id, exc, propagated,
                  nfaults, backendCalls, backendReturns, statusWrites, botVars, mt5Vars, appVars>>

\* add_order(db, d): the new Order, or TypeError / IntegrityError with the
\* table as it was
DbAddOrder(d) ==
    /\ dbRet.n < MaxDbCalls
    /\ IF IsNone(AddOrderVolume(d))
       THEN /\ dbRet' = [n |-> dbRet.n + 1, op |-> "add", id |-> 0,
                         status |-> "pending", args |-> NoArgs, ret |-> "TypeError"]
            /\ UNCHANGED orders
       ELSE IF ViolatesUnique(orders, NewOrder(d))
       THEN /\ dbRet' = [n |-> dbRet.n + 1, op |-> "add", id |-> 0,
                         status |-> "pending", args |-> NoArgs, ret |-> "IntegrityError"]
            /\ UNCHANGED orders
       ELSE /\ dbRet' = [n |-> dbRet.n + 1, op |-> "add", id |-> Len(orders) + 1,
                         status |-> "pending", args |-> NoArgs, ret |-> "Order"]
            /\ orders' = Append(orders, NewOrder(d))
    /\ UNCHANGED <<clock, NotLifecycle>>

\* update_order_status(db, order_id, mt5_order_id, status, executed_price,
\* status_message): the updated Order, or None for an unknown id.  Time
\* passes between two calls.
DbUpdateOrderStatus(order_id, mt5_order_id, status, executed_price, status_message) ==
    /\ dbRet.n < MaxDbCalls
    /\ orders' = UpdateOrderStatus(orders, order_id, mt5_order_id, status,
                                   executed_price, status_message, clock)
    /\ clock' = clock + 1
    /\ dbRet' = [n |-> dbRet.n + 1, op |-> "update", id |-> order_id, status |-> status,
                 args |-> [mt5 |-> mt5_order_id, price |-> executed_price,
                           msg |-> status_message],
                 ret |-> IF order_id \in 1..Len(orders) THEN "Order" ELSE "None"]
    /\ UNCHANGED NotLifecycle

\* The optional arguments of update_order_status: none, each alone, all.
DbArgs ==
    { [mt5 |-> None,     price |-> None,      msg |-> None],
      [mt5 |-> Some(55), price |-> None,      msg |-> None],
      [mt5 |-> None,     price |-> Some(750), msg |-> None],
      [mt5 |-> None,     price |-> None,      msg |-> SuccessMessage],
      [mt5 |-> Some(66), price |-> Some(760), msg |-> GenericFailure] }

\* The Orders added directly.
DbSignals ==
    { Sig(IdStr("7"), "Buy",  BaseData),
      Sig(IdInt(7),   "Sell", Data(Some(<<"x">>), None)),
      Sig(IdStr("8"), "Sell", [sl |-> None, tps |-> None, volume |-> Some(None)]),
      Sig(IdStr("8"), "Sell", [sl |-> None, tps |-> None, volume |-> Some(Some(0))]) }

NextDb ==
    \/ \E d \in DbSignals : DbAddOrder(d)
    \/ \E i \in 1..(Len(orders) + 1), st \in Statuses, a \in DbArgs :
          DbUpdateOrderStatus(i, a.mt5, st, a.price, a.msg)

SpecDb == Init /\ [][NextDb]_vars

\* ================================================== telegram_bot/bot.py
\* A text is a sequence of one-character strings.  The emoji that open a
\* header, a take-profit and a stop-loss line are written * ^ # here.
MaxLines == 4        \* lines of a message (SpecBot)

StarMark == "*"
TpMark   == "^"
SlMark   == "#"

\* \s, over the characters used here
Whitespace == {" ", "\t"}

LowerCase == <<"a", "b", "c", "d", "e", "f", "g", "h", "i", "j", "k", "l", "m",
               "n", "o", "p", "q", "r", "s", "t", "u", "v", "w", "x", "y", "z">>
UpperCase == <<"A", "B", "C", "D", "E", "F", "G", "H", "I", "J", "K", "L", "M",
               "N", "O", "P", "Q", "R", "S", "T", "U", "V", "W", "X", "Y", "Z">>

\* [A-Z] under re.IGNORECASE (the four non-ASCII letters it also matches are
\* not among the characters used here)
Letters == {LowerCase[i] : i \in DOMAIN LowerCase} \cup {UpperCase[i] : i \in DOMAIN UpperCase}

\* The other case of each letter, as a table.
UpperOf == [c \in {LowerCase[i] : i \in DOMAIN LowerCase} |->
               UpperCase[CHOOSE i \in DOMAIN LowerCase : LowerCase[i] = c]]
LowerOf == [c \in {UpperCase[i] : i \in DOMAIN UpperCase} |->
               LowerCase[CHOOSE i \in DOMAIN UpperCase : UpperCase[i] = c]]

CharUpper(c) == IF c \in DOMAIN UpperOf THEN UpperOf[c] ELSE c

CharLower(c) == IF c \in DOMAIN LowerOf THEN LowerOf[c] ELSE c

\* (mutant of StrUpper: the text is kept as typed)
StrAsTyped(s) == s

\* str.upper()
StrUpper(s) == [i \in 1..Len(s) |-> CharUpper(s[i])]

\* str.capitalize()
Capitalize(s) == [i \in 1..Len(s) |-> IF i = 1 THEN CharUpper(s[i]) ELSE CharLower(s[i])]

SetMin(S) == CHOOSE x \in S : \A y \in S : x <= y
SetMax(S) == CHOOSE x \in S : \A y \in S : x >= y

\* A greedy X* at position i of s: the position after the longest run of
\* characters of class C.
RECURSIVE EndOfRun(_, _, _)
EndOfRun(s, i, C) == IF i <= Len(s) /\ s[i] \in C THEN EndOfRun(s, i + 1, C) ELSE i

\* The position before the longest run of characters of class C that ends
\* at position i.
RECURSIVE StartOfRun(_, _, _)
StartOfRun(s, i, C) == IF i >= 1 /\ s[i] \in C THEN StartOfRun(s, i - 1, C) ELSE i

\* str.strip()
Strip(s) == SubSeq(s, EndOfRun(s, 1, Whitespace), StartOfRun(s, Len(s), Whitespace))

\* s has character c at position i
At(s, i, c) == i >= 1 /\ i <= Len(s) /\ s[i] = c

\* \d+\.?\d* at position i: the position after the match, 0 for no match.
\* (The first success of the backtracking matcher is the greedy one: a
\* shorter \d+ is followed by a digit, which nothing after it can take.)
Number(s, i) ==
    LET a == EndOfRun(s, i, Digits)
        b == IF At(s, a, ".") THEN a + 1 ELSE a
    IN  IF a = i THEN 0 ELSE EndOfRun(s, b, Digits)

\* A literal word at position i, under re.IGNORECASE.
Literal(s, i, w) ==
    /\ i + Len(w) - 1 <= Len(s)
    /\ \A k \in 1..Len(w) : CharLower(s[i + k - 1]) = CharLower(w[k])

\* signal_pattern.match(line): None, or the three named groups.
\*   star \s* [A-Z]+ \s+ (Sell|Buy) \s*-\s* \d+\.?\d* \s*-\s* \d+\.?\d*
HeaderMatch(line) ==
    LET p1  == EndOfRun(line, 2, Whitespace)
        p2  == EndOfRun(line, p1, Letters)
        p3  == EndOfRun(line, p2, Whitespace)
        act == IF Literal(line, p3, <<"S", "e", "l", "l">>) THEN 4
               ELSE IF Literal(line, p3, <<"B", "u", "y">>) THEN 3 ELSE 0
        p4  == p3 + act
        p5  == EndOfRun(line, p4, Whitespace)
        p6  == EndOfRun(line, p5 + 1, Whitespace)
        n1  == Number(line, p6)
        p7  == EndOfRun(line, n1, Whitespace)
        p8  == EndOfRun(line, p7 + 1, Whitespace)
        n2  == Number(line, p8)
    IN  IF /\ At(line, 1, StarMark)
           /\ p2 > p1
           /\ p3 > p2
           /\ act > 0
           /\ At(line, p5, "-")
           /\ n1 > 0
           /\ At(line, p7, "-")
           /\ n2 > 0
        THEN Some([instrument  |-> SubSeq(line, p1, p2 - 1),
                   action      |-> SubSeq(line, p3, p4 - 1),
                   entry_range |-> SubSeq(line, p6, n2 - 1)])
        ELSE None

\* tp_pattern.match(line): None, or group 1.   mark \s* TP \s* =? \s* \d+\.?\d*
TpMatch(line) ==
    LET p1 == EndOfRun(line, 2, Whitespace)
        p2 == EndOfRun(line, p1 + 2, Whitespace)
        p3 == IF At(line, p2, "=") THEN p2 + 1 ELSE p2
        p4 == EndOfRun(line, p3, Whitespace)
        n  == Number(line, p4)
    IN  IF At(line, 1, TpMark) /\ Literal(line, p1, <<"T", "P">>) /\ n > 0
        THEN Some(SubSeq(line, p4, n - 1))
        ELSE None

\* sl_pattern.match(line): None, or group 1.
\*   mark \s* (?:STOP\s*LOSS|SL) \s* \d+\.?\d*
SlMatch(line) ==
    LET p1   == EndOfRun(line, 2, Whitespace)
        q    == EndOfRun(line, p1 + 4, Whitespace)
        long == Literal(line, p1, <<"S", "T", "O", "P">>)
                    /\ Literal(line, q, <<"L", "O", "S", "S">>)
        p2   == IF long THEN q + 4 ELSE p1 + 2
        p3   == EndOfRun(line, p2, Whitespace)
        n    == Number(line, p3)
    IN  IF At(line, 1, SlMark) /\ (long \/ Literal(line, p1, <<"S", "L">>)) /\ n > 0
        THEN Some(SubSeq(line, p3, n - 1))
        ELSE None

\* (mutant of ReSubHyphen: the range is kept as matched)
ReSubNothing(s) == s

\* re.sub(r'\s*-\s*', '-', s), from position i on: where white space, a
\* hyphen, white space starts, a hyphen is written and the scan goes on after
\* it; any other character is copied.
RECURSIVE ReSubFrom(_, _)
ReSubFrom(s, i) ==
    IF i > Len(s) THEN <<>>
    ELSE LET e == EndOfRun(s, i, Whitespace)
         IN  IF e <= Len(s) /\ s[e] = "-"
             THEN <<"-">> \o ReSubFrom(s, EndOfRun(s, e + 1, Whitespace))
             ELSE <<s[i]>> \o ReSubFrom(s, i + 1)

ReSubHyphen(s) == ReSubFrom(s, 1)

\* (mutant of TriesHeader: every line is tried as a header)
TriesHeaderAlways(found) == TRUE

\* line 44: `if not signal_match_found:`
TriesHeader(found) == ~found

\* (mutant of AppendTp: the newest take-profit goes first)
PrependTp(tps, v) == <<v>> \o tps

\* line 57: parsed_data["tps"].append(...)
AppendTp(tps, v) == Append(tps, v)

\* (mutant of SetSl: the first stop-loss is kept)
SetSlOnce(old, v) == IF IsNone(old) THEN Some(v) ELSE old

\* line 62: parsed_data["sl"] = ...
SetSl(old, v) == Some(v)

\* (mutant of FinalTps: the empty list stays in the dict)
FinalTpsKept(tps) == tps

\* lines 68-69: `if not parsed_data["tps"]: del parsed_data["tps"]`
FinalTps(tps) == IF Val(tps) = <<>> THEN None ELSE tps

\* (mutant of ParseResult: the dict is returned whatever it holds)
ParseResultAlways(d) == Some([d EXCEPT !.tps = FinalTps(@)])

\* lines 66-72: the dict when the three header keys are in it, else None
ParseResult(d) ==
    IF ~IsNone(d.instrument) /\ ~IsNone(d.action) /\ ~IsNone(d.entry_range)
    THEN Some([d EXCEPT !.tps = FinalTps(@)])
    ELSE None

\* -------------------------------------------------------- message domain
Spaces(n) == [i \in 1..n |-> " "]

\* low, spaces, hyphen, spaces, high
Range(low, x, y, high) == low \o Spaces(x) \o <<"-">> \o Spaces(y) \o high

\* What stands before the entry range on a header line.
PrefixUpper == <<"*", "G", "O", "L", "D", " ", "S", "e", "l", "l", " ", "-", " ">>
PrefixLower == <<" ", "*", " ", "e", "u", "\t", " ", "b", "U", "Y", "-">>

HeaderLines ==
    { PrefixUpper \o Range(<<"1", ".", "5">>, 0, 0, <<"2">>),
      PrefixUpper \o Range(<<"1", ".", "5">>, 1, 2, <<"2">>),
      PrefixLower \o Range(<<"1", ".", "5">>, 2, 0, <<"2", "0", ".">>) \o <<" ">> }

\* Starts like a header but is none: the action is not Sell or Buy.
NearHeaderLines ==
    { <<"*", "G", "O", "L", "D", " ", "H", "o", "l", "d", " ", "-", " ", "1", "-", "2">> }

TpLines ==
    { <<"^", "T", "P", " ", "=", "7">>,
      <<" ", "^", " ", "t", "p", "8", ".", "5", "x">>,
      <<"^", "T", "P", " ", "=", " ", "x">> }

SlLines ==
    { <<"#", "S", "T", "O", "P", " ", "L", "O", "S", "S", " ", "9">>,
      <<"#", "s", "l", "3", ".", "5">> }

\* The lines of a message; the near header and the third take-profit line
\* match no pattern.
LinePool == HeaderLines \cup NearHeaderLines \cup TpLines \cup SlLines

\* message_text.split('\n'), for every message of at most MaxLines lines
Messages == UNION {[1..n -> LinePool] : n \in 0..MaxLines}

MessageIds == {101, 102}

\* ------------------------------------------------------------- the parser
lifecycleVars == <<orders, clock, pc, parsed_data, msg_id, session, new_order_id, exc,
                   propagated, nfaults, backendCalls, backendReturns, statusWrites, dbRet>>

\* message_handler, lines 78-82: parse_message(message_text, message_id)
Receive(text, id) ==
    /\ bot_pc = "idle"
    /\ bot_pc' = "loop"
    /\ lines' = text
    /\ message_id' = id
    /\ line_no' = 1
    /\ signal_match_found' = FALSE
    /\ bot_data' = NewParsedData(id)
    /\ parse_ret' = None
    /\ UNCHANGED <<lifecycleVars, mt5Vars, appVars>>

\* One turn of `for line in lines:`.
ParseLine ==
    /\ bot_pc = "loop"
    /\ line_no <= Len(lines)
    /\ LET line == Strip(lines[line_no])
           h    == HeaderMatch(line)
           tp   == TpMatch(line)
           sl   == SlMatch(line)
       IN  IF TriesHeader(signal_match_found) /\ ~IsNone(h)
           THEN /\ bot_data' = [bot_data EXCEPT
                                   !.instrument  = Some(StrUpper(Val(h).instrument)),
                                   !.action      = Some(Capitalize(Val(h).action)),
                                   !.entry_range = Some(ReSubHyphen(Val(h).entry_range))]
                /\ signal_match_found' = TRUE
           ELSE /\ bot_data' =
                      IF ~IsNone(tp)
                      THEN [bot_data EXCEPT !.tps = Some(AppendTp(Val(@), Val(tp)))]
                      ELSE IF ~IsNone(sl)
                      THEN [bot_data EXCEPT !.sl = SetSl(@, Val(sl))]
                      ELSE bot_data
                /\ UNCHANGED signal_match_found
    /\ line_no' = line_no + 1
    /\ UNCHANGED <<bot_pc, lines, message_id, parse_ret, lifecycleVars, mt5Vars, appVars>>

\* After the loop: lines 66-72.
ParseReturn ==
    /\ bot_pc = "loop"
    /\ line_no > Len(lines)
    /\ bot_pc' = "returned"
    /\ parse_ret' = ParseResult(bot_data)
    /\ UNCHANGED <<lines, message_id, line_no, signal_match_found, bot_data,
                   lifecycleVars, mt5Vars, appVars>>

\* An update arrives while no message is being handled.
Incoming ==
    /\ bot_pc = "idle"
    /\ \E text \in Messages, id \in MessageIds : Receive(text, id)

NextBot ==
    \/ Incoming
    \/ ParseLine
    \/ ParseReturn

SpecBot == Init /\ [][NextBot]_vars

\* ===================================================== mt5/connector.py
\* place_order.  The MetaTrader5 module is the environment: what its calls
\* return is chosen freely at each call.  A result dict is a record whose
\* keys are Optionals, None for a key the dict does not have.
TRADE_RETCODE_DONE   == 10009
TRADE_RETCODE_PLACED == 10008

\* order_type arguments: BUY, buy, SELL and something else
OrderTypes ==
    { <<"B", "U", "Y">>, <<"b", "u", "y">>, <<"S", "E", "L", "L">>, <<"H", "O", "L", "D">> }

\* sl / tp arguments: None, a positive price, zero, a negative price
PoLevels == {None, Some(750), Some(0), Some(0 - 500)}

PlaceOrderArgs ==
    [order_type : OrderTypes, volume : {1}, sl : PoLevels, tp : PoLevels \ {Some(0 - 500)}]

\* mt5.symbol_info(instrument)
SymbolInfos == {None, Some([visible |-> TRUE]), Some([visible |-> FALSE])}

\* mt5.symbol_info_tick(instrument): None, or a tick whose ask / bid may be
\* zero or None
Ticks ==
    { None,
      Some([ask |-> Some(120), bid |-> Some(110)]),
      Some([ask |-> Some(0),   bid |-> Some(110)]),
      Some([ask |-> Some(120), bid |-> None]) }

\* mt5.order_send(request): None, or a result with a retcode
SendResults ==
    { None,
      Some([retcode |-> TRADE_RETCODE_DONE,   order |-> 55, comment |-> <<"d">>, price |-> 120]),
      Some([retcode |-> TRADE_RETCODE_PLACED, order |-> 56, comment |-> <<"p">>, price |-> 110]),
      Some([retcode |-> 10006, order |-> 0,  comment |-> <<"r">>, price |-> 0]),
      Some([retcode |-> 10016, order |-> 57, comment |-> <<"s">>, price |-> 110]) }

\* mt5.last_error(): (code, description)
LastErrors == { [code |-> 0 - 10004, description |-> <<"c">>],
                [code |-> 1,         description |-> <<"o">>] }

NoDict == [error |-> None, order_id |-> None, retcode |-> None, comment |-> None,
           price |-> None, sl |-> None, tp |-> None]

\* The dict of an early return: error, retcode -1 and a comment.
EarlyError(error, comment) ==
    [NoDict EXCEPT !.error = Some(error), !.retcode = Some(0 - 1), !.comment = Some(comment)]

\* lines 93-101: the MetaTrader order type for order_type.upper(), None for
\* one that is neither BUY nor SELL
Mt5OrderType(order_type) ==
    IF StrUpper(order_type) = <<"B", "U", "Y">> THEN Some("ORDER_TYPE_BUY")
    ELSE IF StrUpper(order_type) = <<"S", "E", "L", "L">> THEN Some("ORDER_TYPE_SELL")
    ELSE None

\* (mutant of ExecutionPrice: every order at the bid)
ExecutionPriceBid(order_type, tick) == tick.bid

\* lines 93-98: ask for a BUY, bid for a SELL
ExecutionPrice(order_type, tick) ==
    IF Mt5OrderType(order_type) = Some("ORDER_TYPE_BUY") THEN tick.ask ELSE tick.bid

\* line 103: `execution_price is None or execution_price == 0.0`
InvalidPrice(price) == IsNone(price) \/ Val(price) = 0

\* lines 107-135: the request dict (the keys that are the same for every
\* order are left out)
BuildRequest(args, tick) ==
    [type   |-> Val(Mt5OrderType(args.order_type)),
     volume |-> args.volume,
     price  |-> Val(ExecutionPrice(args.order_type, tick)),
     sl     |-> RequestLevel(args.sl),
     tp     |-> RequestLevel(args.tp)]

\* (mutant of SendFailed: every retcode counts as success)
SendFailedNever(result) == FALSE

\* line 146: the retcode is neither DONE nor PLACED
SendFailed(result) ==
    result.retcode # TRADE_RETCODE_DONE /\ result.retcode # TRADE_RETCODE_PLACED

\* lines 140-176: the dict returned after order_send
SendOutcome(req, result, err) ==
    IF IsNone(result)
    THEN [NoDict EXCEPT !.error   = Some("order_send call failed"),
                        !.retcode = Some(err.code),
                        !.comment = Some(err.description)]
    ELSE IF SendFailed(Val(result))
    THEN [NoDict EXCEPT !.error    = Some("Order execution failed by MT5"),
                        !.order_id = Some(Val(result).order),
                        !.retcode  = Some(Val(result).retcode),
                        !.comment  = Some(Val(result).comment),
                        !.price    = Some(Val(result).price)]
    ELSE [NoDict EXCEPT !.order_id = Some(Val(result).order),
                        !.retcode  = Some(Val(result).retcode),
                        !.comment  = Some(Val(result).comment),
                        !.price    = Some(Val(result).price),
                        !.sl       = Some(req.sl),
                        !.tp       = Some(req.tp)]

NotMt5 == <<lifecycleVars, botVars, appVars>>

\* `return {...}` before the request is built
PoReturnEarly(error, comment) ==
    /\ po_pc' = "returned"
    /\ po_ret' = Some(EarlyError(error, comment))
    /\ UNCHANGED <<request, sent, send_result, last_error>>

\* place_order(instrument, order_type, volume, sl=..., tp=...) is called
PlaceOrder(args) ==
    /\ po_pc = "idle"
    /\ po_pc' = "symbol_info"
    /\ po_args' = args
    /\ mt5_calls' = <<>>
    /\ UNCHANGED <<symbol_info, current_tick, request, sent, send_result, last_error,
                   po_ret, NotMt5>>

Called ==
    /\ po_pc = "idle"
    /\ \E args \in PlaceOrderArgs : PlaceOrder(args)

\* lines 68-71
SymbolInfo ==
    /\ po_pc = "symbol_info"
    /\ \E info \in SymbolInfos :
          /\ symbol_info' = info
          /\ IF IsNone(info)
             THEN PoReturnEarly("Failed to get symbol_info", "MT5 error")
             ELSE /\ po_pc' = IF Val(info).visible THEN "tick" ELSE "select"
                  /\ UNCHANGED <<request, sent, send_result, last_error, po_ret>>
    /\ mt5_calls' = Append(mt5_calls, "symbol_info")
    /\ UNCHANGED <<po_args, current_tick, NotMt5>>

\* lines 74-79
SymbolSelect ==
    /\ po_pc = "select"
    /\ \E selected \in BOOLEAN :
          IF ~selected
          THEN PoReturnEarly("Failed to select in MarketWatch", "MT5 error")
          ELSE /\ po_pc' = "refetch"
               /\ UNCHANGED <<request, sent, send_result, last_error, po_ret>>
    /\ mt5_calls' = Append(mt5_calls, "symbol_select")
    /\ UNCHANGED <<po_args, symbol_info, current_tick, NotMt5>>

\* lines 80-84
SymbolInfoAgain ==
    /\ po_pc = "refetch"
    /\ \E info \in SymbolInfos :
          /\ symbol_info' = info
          /\ IF IsNone(info)
             THEN PoReturnEarly("Failed to get symbol_info post-select", "MT5 error")
             ELSE /\ po_pc' = "tick"
                  /\ UNCHANGED <<request, sent, send_result, last_error, po_ret>>
    /\ mt5_calls' = Append(mt5_calls, "symbol_info")
    /\ UNCHANGED <<po_args, current_tick, NotMt5>>

\* lines 88-91
SymbolInfoTick ==
    /\ po_pc = "tick"
    /\ \E tick \in Ticks :
          /\ current_tick' = tick
          /\ IF IsNone(tick)
             THEN PoReturnEarly("Could not fetch tick", "MT5 error")
             ELSE /\ po_pc' = "build"
                  /\ UNCHANGED <<request, sent, send_result, last_error, po_ret>>
    /\ mt5_calls' = Append(mt5_calls, "symbol_info_tick")
    /\ UNCHANGED <<po_args, symbol_info, NotMt5>>

\* lines 93-135: order type, price, request
Build ==
    /\ po_pc = "build"
    /\ IF IsNone(Mt5OrderType(po_args.order_type))
       THEN PoReturnEarly("Invalid order type", "Application error: Invalid order type")
       ELSE IF InvalidPrice(ExecutionPrice(po_args.order_type, Val(current_tick)))
       THEN PoReturnEarly("Invalid market price", "MT5 error: Could not get valid price")
       ELSE /\ po_pc' = "send"
            /\ request' = Some(BuildRequest(po_args, Val(current_tick)))
            /\ UNCHANGED <<sent, send_result, last_error, po_ret>>
    /\ UNCHANGED mt5_calls
    /\ UNCHANGED <<po_args, symbol_info, current_tick, NotMt5>>

\* lines 138-176: mt5.order_send(request) and the return
OrderSend ==
    /\ po_pc = "send"
    /\ \E result \in SendResults, err \in LastErrors :
          /\ sent' = Append(sent, Val(request))
          /\ send_result' = result
          /\ last_error' = err
          /\ po_ret' = Some(SendOutcome(Val(request), result, err))
    /\ po_pc' = "returned"
    /\ mt5_calls' = Append(mt5_calls, "order_send")
    /\ UNCHANGED <<po_args, symbol_info, current_tick, request, NotMt5>>

NextMt5 ==
    \/ Called
    \/ SymbolInfo
    \/ SymbolSelect
    \/ SymbolInfoAgain
    \/ SymbolInfoTick
    \/ Build
    \/ OrderSend

SpecMt5 == Init /\ [][NextMt5]_vars

\* ================================================================ main.py
\* The Start Bot / Stop Bot handlers of the application window and the bot
\* threads they start, one step per handler.  delivered records, for each
\* signal a polling thread handed to process_telegram_signal, the thread and
\* whether the terminal connection was up.
NotApp == <<lifecycleVars, botVars, mt5Vars>>

\* threading.Thread(...).is_alive(): run_polling has not returned or raised
Alive(t) == threads[t] = "polling"

AliveThreads == {t \in 1..Len(threads) : Alive(t)}

\* lines 104-133: on_start_bot (the button is clickable only while enabled).
\* cfg: load_config_values() found a complete configuration; initialized:
\* what initialize_mt5 returned.
OnStartBot(cfg, initialized) ==
    /\ start_bot_button
    /\ Len(threads) < MaxStarts
    /\ IF ~cfg
       THEN UNCHANGED appVars
       ELSE IF ~initialized
       THEN \* lines 116-121: the buttons are put back; the terminal is not
            \* connected (mt5.initialize() failed, or login failed and
            \* connector.py:29 shut it down)
            /\ mt5_connected' = FALSE
            /\ UNCHANGED <<start_bot_button, stop_bot_button, stop_bot_event,
                           bot_thread, mt5_initialized_by_bot, threads, delivered>>
       ELSE /\ start_bot_button' = FALSE
            /\ stop_bot_button' = TRUE
            /\ mt5_initialized_by_bot' = TRUE
            /\ mt5_connected' = TRUE
            /\ stop_bot_event' = FALSE
            /\ threads' = Append(threads, "polling")
            /\ bot_thread' = Some(Len(threads) + 1)
            /\ UNCHANGED delivered
    /\ UNCHANGED NotApp

StartClicked == \E cfg \in BOOLEAN, initialized \in BOOLEAN : OnStartBot(cfg, initialized)

\* lines 157-179: on_stop_bot sets the event (nobody waits on it), shuts the
\* terminal connection down, swaps the buttons and forgets the thread, which
\* keeps polling.
OnStopBot ==
    /\ stop_bot_button
    /\ stop_bot_event' = TRUE
    /\ IF mt5_initialized_by_bot
       THEN mt5_connected' = FALSE /\ mt5_initialized_by_bot' = FALSE
       ELSE UNCHANGED <<mt5_connected, mt5_initialized_by_bot>>
    /\ start_bot_button' = TRUE
    /\ stop_bot_button' = FALSE
    /\ bot_thread' = None
    /\ UNCHANGED <<threads, delivered, NotApp>>

\* bot.py 74-88 in a polling thread: a message of a listened chat parses to a
\* signal and the callback, process_telegram_signal, is called with it.
Deliver(t) ==
    /\ Alive(t)
    /\ delivered' = delivered \cup {[thread |-> t, connected |-> mt5_connected]}
    /\ UNCHANGED <<start_bot_button, stop_bot_button, stop_bot_event, bot_thread,
                   mt5_initialized_by_bot, mt5_connected, threads, NotApp>>

\* lines 141-154: start_bot returned or raised in its thread (run_polling was
\* interrupted); nothing else is touched.
ThreadExit(t) ==
    /\ Alive(t)
    /\ threads' = [threads EXCEPT ![t] = "finished"]
    /\ UNCHANGED <<start_bot_button, stop_bot_button, stop_bot_event, bot_thread,
                   mt5_initialized_by_bot, mt5_connected, delivered, NotApp>>

NextApp ==
    \/ StartClicked
    \/ OnStopBot
    \/ \E t \in 1..Len(threads) : Deliver(t)
    \/ \E t \in 1..Len(threads) : ThreadExit(t)

SpecApp == Init /\ [][NextApp]_vars

\* ================================================================ claims
InFlight(p)   == pc[p] \notin {"idle"} \cup Exits
Rows          == 1..Len(orders)
Owns(p, i)    == new_order_id[p] = Some(i)
WritesBy(p)   == {w \in statusWrites : w.by = p}
CallsBy(p)    == {c \in backendCalls : c.by = p}
CallsFor(i)   == {c \in backendCalls : c.id = i}
KeyRows(id)   == RowsWithKey(orders, Str(id))

\* An invocation whose key is already in the table and that did not insert it.
Duplicate(p) == InFlight(p) /\ IsNone(new_order_id[p]) /\ KeyRows(msg_id[p]) # {}

\* C1 -- Idempotence.  A call made with a key that is already in the table
\* (whatever its other fields) changes no row, writes no status, calls no
\* backend, and returns as a duplicate (or through the guard when the query
\* raised); afterwards exactly one Order has that key.
C1_Idempotent ==
    /\ [](\A p \in Procs : pc[p] = "return_duplicate" =>
              Cardinality(KeyRows(msg_id[p])) = 1)
    /\ [][\A p \in Procs : Duplicate(p) =>
              /\ orders' = orders
              /\ statusWrites' = statusWrites
              /\ backendCalls' = backendCalls
              /\ pc'[p] \in {"guard", "return_duplicate", "end_guarded"}
              /\ Cardinality(KeyRows(msg_id[p])) = 1]_vars

\* The worker was called with the int 7 (every such signal is a Sell) and
\* returned as a duplicate of the Buy order stored under "7".
C1_Witness ==
    /\ pc[1] = "return_duplicate"
    /\ msg_id[1] = IdInt(7)
    /\ \E i \in Rows : /\ orders[i].telegram_message_id = "7"
                       /\ orders[i].action = "Buy"
                       /\ orders[i].status = "executed"

\* C2 -- Uniqueness.  No two Orders ever share a telegram_message_id, and an
\* add_order whose key is already present fails and leaves the table as it was.
C2_Unique ==
    /\ [](\A i, j \in Rows :
              orders[i].telegram_message_id = orders[j].telegram_message_id => i = j)
    /\ [][\A p \in Procs :
              ( /\ pc[p] = "add"
                /\ pc'[p] # "add"
                /\ KeyRows(msg_id[p]) # {} ) =>
              ( /\ orders' = orders
                /\ pc'[p] = "return_add_failed"
                /\ new_order_id'[p] = None )]_vars

\* Two invocations with the key "7" both reached the insert; one row exists
\* and the other invocation's insert was rejected.
C2_Witness ==
    /\ nfaults = 0
    /\ \E p, q \in Procs :
          /\ p # q
          /\ pc[p] = "return_add_failed"
          /\ Str(msg_id[p]) = Str(msg_id[q])
          /\ \E i \in Rows : Owns(q, i) /\ KeyRows(msg_id[p]) = {i}

\* C3 -- Concurrent duplicates.  With no collaborator failing, an invocation
\* that has a key and did not insert its Order returned as a duplicate, at the
\* dedup check or at the rejected insert: it did not reach the unexpected-error
\* guard, wrote no status, called no backend, and one Order has its key.
C3_RaceLoser ==
    \A p \in Procs :
        ( /\ pc[p] \in Exits
          /\ pc[p] # "return_missing_id"
          /\ IsNone(new_order_id[p])
          /\ nfaults = 0 ) =>
        ( /\ pc[p] \in {"return_duplicate", "return_add_failed"}
          /\ Cardinality(KeyRows(msg_id[p])) = 1
          /\ WritesBy(p) = {}
          /\ CallsBy(p) = {}
          /\ \A i \in KeyRows(msg_id[p]) : orders[i].status # "error" )

\* The loser of a race on the key "7": its insert was rejected after the
\* winner's Order had already been executed.
C3_Witness ==
    /\ nfaults = 0
    /\ \E p, q \in Procs :
          /\ p # q
          /\ pc[p] = "return_add_failed"
          /\ pc[q] = "end"
          /\ \E i \in Rows : /\ Owns(q, i)
                             /\ KeyRows(msg_id[p]) = {i}
                             /\ orders[i].status = "executed"

\* C4 -- Terminal-state protection.  No step turns an Order whose persisted
\* status is executed or failed into error.
C4_TerminalProtected ==
    [][\A i \in Rows :
          orders[i].status \in {"executed", "failed"} => orders'[i].status # "error"]_vars

\* The status write of an executed Order raised after its commit; the guard
\* ran, re-read `executed`, and wrote nothing.
C4_Witness ==
    \E p \in Procs, i \in Rows :
        /\ pc[p] = "end_guarded"
        /\ Owns(p, i)
        /\ orders[i].status = "executed"
        /\ \A w \in WritesBy(p) : w.id = i => w.status = "executed"

\* A stop-loss that is set, not empty, and not a float literal.
UnparseableSl(row) ==
    ~IsNone(row.sl) /\ Val(row.sl) # <<>> /\ ~IsFloatText(Val(row.sl))

\* A non-empty take-profit list whose first element is not a float literal.
UnparseableFirstTp(row) ==
    ~IsNone(row.tps) /\ Len(Val(row.tps)) > 0 /\ ~IsFloatText(Val(row.tps)[1])

\* C5 -- An Order with an unparseable stop-loss is never sent to the backend;
\* its invocation returns from the stop-loss check with the Order failed and
\* the stop-loss text in the message, or, if a persistence call raised, through
\* the guard.
C5_BadStopLoss ==
    \A i \in Rows : UnparseableSl(orders[i]) =>
        /\ CallsFor(i) = {}
        /\ orders[i].status # "executed"
        /\ \A p \in Procs : (Owns(p, i) /\ pc[p] \in Exits) =>
              /\ pc[p] \in {"return_invalid_sl", "end_guarded"}
              /\ nfaults = 0 => pc[p] = "return_invalid_sl"
              /\ pc[p] = "return_invalid_sl" =>
                    /\ orders[i].status = "failed"
                    /\ orders[i].status_message =
                          Some([prefix |-> "Invalid SL value: ", arg |-> Val(orders[i].sl)])

C5_Witness ==
    \E i \in Rows :
        /\ Owns(1, i)
        /\ pc[1] = "return_invalid_sl"
        /\ orders[i].sl = Some(<<"x">>)
        /\ orders[i].status = "failed"
        /\ Val(orders[i].status_message).arg = <<"x">>

\* C6 -- An Order whose first take-profit is unparseable is never sent to the
\* backend, whatever the later take-profits are; its invocation returns from
\* the stop-loss or take-profit check with the Order failed, or, if a
\* persistence call raised, through the guard.
C6_BadFirstTakeProfit ==
    \A i \in Rows : UnparseableFirstTp(orders[i]) =>
        /\ CallsFor(i) = {}
        /\ orders[i].status # "executed"
        /\ \A p \in Procs : (Owns(p, i) /\ pc[p] \in Exits) =>
              /\ pc[p] \in {"return_invalid_sl", "return_invalid_tp", "end_guarded"}
              /\ nfaults = 0 => pc[p] \in {"return_invalid_sl", "return_invalid_tp"}
              /\ pc[p] # "end_guarded" => orders[i].status = "failed"

\* The first take-profit is "x", the second one is a number.
C6_Witness ==
    \E i \in Rows :
        /\ Owns(1, i)
        /\ pc[1] = "return_invalid_tp"
        /\ orders[i].tps = Some(<<<<"x">>, <<"7">>>>)
        /\ orders[i].status = "failed"

\* The result carries a backend-assigned order id (0 is no id).
CarriesOrderId(r) ==
    ~IsNone(r) /\ ~IsNone(Val(r).order_id) /\ Val(Val(r).order_id) # 0

\* The result has a comment (an empty one is none).
HasComment(r) ==
    ~IsNone(r) /\ ~IsNone(Val(r).comment) /\ Val(Val(r).comment) # <<>>

\* C7 -- Outcome application.  Once place_order has returned and the status
\* write that follows has returned, the Order is executed, with the backend's
\* order id and price recorded, if the result carries an order id, and failed
\* otherwise; an executed Order always comes from a result with an order id.
C7_Outcome ==
    /\ \A b \in backendReturns :
          /\ orders[b.id].status = "executed" =>
                /\ CarriesOrderId(b.result)
                /\ orders[b.id].mt5_order_id = Val(b.result).order_id
                /\ orders[b.id].executed_price = Val(b.result).price
          /\ orders[b.id].status = "failed" => ~CarriesOrderId(b.result)
    /\ \A p \in Procs : pc[p] = "end" =>
          \E b \in backendReturns :
              /\ Owns(p, b.id)
              /\ orders[b.id].status =
                    IF CarriesOrderId(b.result) THEN "executed" ELSE "failed"
    /\ \A i \in Rows : orders[i].status = "executed" =>
          \E b \in backendReturns : b.id = i

C7_Witness ==
    \E i \in Rows :
        /\ Owns(1, i)
        /\ pc[1] = "end"
        /\ orders[i].status = "executed"
        /\ orders[i].mt5_order_id = Some(55)
        /\ orders[i].executed_price = Some(750)
        /\ \E j \in Rows : /\ orders[j].status = "failed"
                           /\ [id |-> j, result |->
                                 Some([order_id |-> Some(0), comment |-> Some(<<"r">>),
                                       price |-> Some(0)])] \in backendReturns

\* C8 -- "No result" is a failure like any other: once the status write has
\* returned the Order is failed, and the message of every Order failed by a
\* backend result is the backend's comment when the result has one and the
\* generic message otherwise.
C8_FailureMessage ==
    \A b \in backendReturns :
        /\ (IsNone(b.result) /\ \E p \in Procs : Owns(p, b.id) /\ pc[p] = "end") =>
              orders[b.id].status = "failed"
        /\ orders[b.id].status = "failed" =>
              orders[b.id].status_message =
                  IF HasComment(b.result)
                  THEN Some([prefix |-> "MT5 order failed: ",
                             arg |-> Val(Val(b.result).comment)])
                  ELSE Some([prefix |-> "MT5 order execution failed. Check MT5 connector logs.",
                             arg |-> <<>>])

\* One Order failed by "no result" with the generic message, another failed
\* by a result with a comment.
C8_Witness ==
    \E i, j \in Rows :
        /\ [id |-> i, result |-> None] \in backendReturns
        /\ orders[i].status = "failed"
        /\ Val(orders[i].status_message).arg = <<>>
        /\ orders[j].status = "failed"
        /\ Val(orders[j].status_message).arg = <<"r">>

\* C9 -- executed_time is set exactly once: a new Order has none, it is set
\* whenever the status is `executed`, a call sets it only by moving the Order
\* into `executed` (to the time of that call), and once set no
\* update_order_status call, with any status, changes or clears it.
C9_ExecutedTimeOnce ==
    /\ [](\A i \in Rows : orders[i].status = "executed" => ~IsNone(orders[i].executed_time))
    /\ [][/\ Len(orders') > Len(orders) => IsNone(orders'[Len(orders')].executed_time)
          /\ \A i \in Rows :
                /\ ~IsNone(orders[i].executed_time) =>
                       orders'[i].executed_time = orders[i].executed_time
                /\ (IsNone(orders[i].executed_time) /\ ~IsNone(orders'[i].executed_time)) =>
                       /\ orders'[i].status = "executed"
                       /\ orders[i].status # "executed"
                       /\ orders'[i].executed_time = Some(clock)]_vars

\* An Order was executed, updated twice more, the last time with `executed`
\* again, and its executed_time is still the time of the first transition.
C9_Witness ==
    /\ dbRet.op = "update"
    /\ dbRet.status = "executed"
    /\ dbRet.id \in Rows
    /\ orders[dbRet.id].status = "executed"
    /\ Val(orders[dbRet.id].executed_time) + 2 < clock

\* C10 -- Missing identifier.  Accepting a signal whose telegram_message_id is
\* None, 0 or "" returns at once: no session is opened, no collaborator is
\* called, and the table and the histories are as they were.
C10_MissingId ==
    /\ [](\A p \in Procs : pc[p] = "return_missing_id" <=>
              (pc[p] # "idle" /\ msg_id[p] \in MissingIds))
    /\ [][\A p \in Procs :
             (~InFlight(p) /\ msg_id'[p] \in MissingIds /\ pc'[p] # "idle") =>
                 /\ pc'[p] = "return_missing_id"
                 /\ session'[p] = "none"
                 /\ UNCHANGED <<orders, clock, nfaults, backendCalls, backendReturns,
                                statusWrites>>]_vars

\* The empty-string id was accepted with two Orders in the table.
C10_Witness ==
    /\ pc[1] = "return_missing_id"
    /\ msg_id[1] = IdStr("")
    /\ session[1] = "none"
    /\ Len(orders) = 2

\* C11 -- No exception propagates out of process_telegram_signal: whichever
\* collaborator call raised (session creation, dedup query, insert, status
\* update, backend call, status re-read, session close), no invocation ends
\* with an exception leaving it.
C11_NoPropagation == \A p \in Procs : IsNone(propagated[p])

\* Invocation p takes a step of the unexpected-failure guard.
GuardStep(p) == pc[p] \in {"guard", "guardwrite"} /\ pc'[p] # pc[p]

\* The row the guard writes: status error, the diagnostic as message.
GuardedRow(row, e) ==
    [row EXCEPT !.status = "error",
                !.status_message = Some([prefix |-> "Core logic processing error: ",
                                         arg |-> e])]

\* C12 -- Unexpected-failure guard.  When the error was raised before the
\* Order was inserted the guard writes nothing.  Otherwise it re-reads the
\* persisted status, changing nothing, and goes on to write exactly when that
\* status is neither executed nor failed (unless the re-read itself raised);
\* the write turns the Order, and nothing else, into error with the diagnostic
\* (unless the write itself raised).  Only the guard ever writes error.
C12_Guard ==
    /\ [](\A p \in Procs : pc[p] = "guardwrite" =>
              \E i \in Rows : Owns(p, i) /\ orders[i].status \notin {"executed", "failed"})
    /\ [][\A p \in Procs : GuardStep(p) =>
             /\ IsNone(new_order_id[p]) =>
                   /\ orders' = orders
                   /\ statusWrites' = statusWrites
                   /\ pc'[p] = "end_guarded"
             /\ \A i \in Rows : (Owns(p, i) /\ pc[p] = "guard") =>
                   /\ orders' = orders
                   /\ statusWrites' = statusWrites
                   /\ pc'[p] \in {"guardwrite", "end_guarded"}
                   /\ pc'[p] = "guardwrite" =>
                          orders[i].status \notin {"executed", "failed"}
                   /\ (orders[i].status \notin {"executed", "failed"}
                         /\ nfaults' = nfaults) => pc'[p] = "guardwrite"
             /\ \A i \in Rows : (Owns(p, i) /\ pc[p] = "guardwrite") =>
                   /\ pc'[p] = "end_guarded"
                   /\ \/ orders' = [orders EXCEPT ![i] = GuardedRow(@, Val(exc[p]))]
                      \/ nfaults' > nfaults /\ orders' = orders]_vars
    /\ [][\A i \in Rows :
             (orders'[i].status = "error" /\ orders[i].status # "error") =>
                 \E p \in Procs : Owns(p, i) /\ pc[p] = "guardwrite"]_vars

\* place_order raised; the guard found the Order pending and wrote error.
C12_Witness ==
    \E i \in Rows :
        /\ Owns(1, i)
        /\ pc[1] = "end_guarded"
        /\ orders[i].status = "error"
        /\ orders[i].status_message =
              Some([prefix |-> "Core logic processing error: ", arg |-> <<"m", "t">>])
        /\ CallsFor(i) # {}

\* C13 -- Insert failure on admission.  Whenever the insert fails, for any
\* reason, the invocation returns with the table as it was before the insert,
\* no status written and the backend not called.
C13_InsertFailure ==
    [][\A p \in Procs : (pc[p] = "add" /\ pc'[p] = "return_add_failed") =>
          /\ orders' = orders
          /\ statusWrites' = statusWrites
          /\ backendCalls' = backendCalls]_vars

\* C14 -- Resource release.  An invocation that returned has no open session:
\* the session it opened is closed, on every exit path; a session is open only
\* while its invocation runs (or when db.close() itself raised).
C14_SessionReleased ==
    \A p \in Procs :
        /\ (pc[p] \in Exits /\ IsNone(propagated[p])) =>
               session[p] = IF pc[p] = "return_missing_id" THEN "none" ELSE "closed"
        /\ InFlight(p) => session[p] = "open"
        /\ session[p] = "open" =>
               InFlight(p) \/ propagated[p] = Some(<<"c", "l">>)

\* The caught-unexpected-error path: the status write raised, the guard wrote
\* error, and the session is closed.
C14_Witness ==
    \E i \in Rows :
        /\ Owns(1, i)
        /\ pc[1] = "end_guarded"
        /\ orders[i].status = "error"
        /\ nfaults = 1
        /\ IsNone(propagated[1])
        /\ session[1] = "closed"
        /\ Len(orders) = 2

\* C15 -- Status state machine.  Every Order is created pending; every status
\* is one of pending, executed, failed, error; a status changes only from
\* pending, to executed, failed or error; no Order is ever deleted or re-keyed.
C15_StatusMachine ==
    /\ [](\A i \in Rows : orders[i].status \in {"pending", "executed", "failed", "error"})
    /\ [][/\ Len(orders') >= Len(orders)
          /\ \A i \in 1..Len(orders') : i > Len(orders) => orders'[i].status = "pending"
          /\ \A i \in Rows :
                /\ orders'[i].telegram_message_id = orders[i].telegram_message_id
                /\ orders'[i].status # orders[i].status =>
                       /\ orders[i].status = "pending"
                       /\ orders'[i].status \in {"executed", "failed", "error"}]_vars

\* Two Orders, one moved from pending to error and one to failed.
C15_Witness ==
    \E i, j \in Rows :
        /\ orders[i].status = "error"
        /\ orders[j].status = "failed"
        /\ {[by |-> 1, id |-> i, status |-> "error"],
            [by |-> 1, id |-> j, status |-> "failed"]} \subseteq statusWrites

\* A volume that is absent, null or zero.
DefaultingVolumes == {None, Some(None), Some(Some(0))}

\* C16 -- Volume defaulting.  An insert of a signal whose volume is absent,
\* null or zero, with a fresh key and no collaborator failing, succeeds and
\* stores the default lot (0.01); the volume passed to the backend is the
\* stored one.
C16_VolumeDefault ==
    /\ [](\A c \in backendCalls : c.volume = orders[c.id].volume)
    /\ [][\A p \in Procs :
             ( /\ pc[p] = "add"
               /\ pc'[p] # "add"
               /\ parsed_data[p].volume \in DefaultingVolumes
               /\ KeyRows(msg_id[p]) = {}
               /\ nfaults' = nfaults ) =>
             ( /\ pc'[p] = "resolve"
               /\ Len(orders') = Len(orders) + 1
               /\ orders'[Len(orders')].volume = 1 )]_vars

\* A level text that is a number, and that number is not positive.
NonPositive(text) == IsFloatText(text) /\ FloatValue(text) <= 0

NonPositiveSl(row) == ~IsNone(row.sl) /\ Val(row.sl) # <<>> /\ NonPositive(Val(row.sl))

NonPositiveFirstTp(row) ==
    ~IsNone(row.tps) /\ Len(Val(row.tps)) > 0 /\ NonPositive(Val(row.tps)[1])

\* C17 -- A stop-loss or first take-profit that parses to a number <= 0 is
\* left out of the request place_order builds, while a positive level is put
\* in it; the Order is not rejected by the validation, place_order is called
\* (unless an earlier collaborator call raised), and the Order is failed only
\* by a backend result without an order id.
C17_NonPositiveLevels ==
    /\ \A c \in backendCalls :
          /\ NonPositiveSl(orders[c.id]) => (c.request_sl = None /\ c.sl # None)
          /\ NonPositiveFirstTp(orders[c.id]) => (c.request_tp = None /\ c.tp # None)
          /\ (c.sl # None /\ Val(c.sl) > 0) => c.request_sl = c.sl
          /\ (c.tp # None /\ Val(c.tp) > 0) => c.request_tp = c.tp
    /\ \A i \in Rows :
          ( /\ NonPositiveSl(orders[i]) \/ NonPositiveFirstTp(orders[i])
            /\ ~UnparseableSl(orders[i])
            /\ ~UnparseableFirstTp(orders[i]) ) =>
          ( /\ \A p \in Procs : Owns(p, i) =>
                  /\ pc[p] \notin {"return_invalid_sl", "return_invalid_tp"}
                  /\ (pc[p] \in Exits /\ nfaults = 0) => CallsFor(i) # {}
            /\ orders[i].status = "failed" =>
                  \E b \in backendReturns : b.id = i /\ ~CarriesOrderId(b.result) )

\* The stop-loss is -5 and the first take-profit 0: both were passed to
\* place_order, neither is in the request, and the Order was executed.
C17_Witness ==
    \E c \in backendCalls :
        /\ orders[c.id].sl = Some(<<"-", "5">>)
        /\ c.sl = Some(0 - 500)
        /\ c.tp = Some(0)
        /\ c.request_sl = None
        /\ c.request_tp = None
        /\ orders[c.id].status = "executed"

\* C18 -- Only the first take-profit is sent: the take-profit argument of every
\* place_order call is the number takeProfits[0] reads as, or absent for an
\* empty or missing list; an Order is rejected for its take-profits only when
\* the first one is unparseable; the list is stored as given and never changes.
C18_FirstTakeProfit ==
    /\ [](\A c \in backendCalls :
             c.tp = IF ~IsNone(orders[c.id].tps) /\ Len(Val(orders[c.id].tps)) > 0
                    THEN Some(FloatValue(Val(orders[c.id].tps)[1]))
                    ELSE None)
    /\ [](\A p \in Procs, i \in Rows :
             (Owns(p, i) /\ pc[p] = "return_invalid_tp") => UnparseableFirstTp(orders[i]))
    /\ [][/\ \A i \in Rows : orders'[i].tps = orders[i].tps
          /\ \A p \in Procs :
                (pc[p] = "add" /\ pc'[p] = "resolve") =>
                    orders'[Len(orders')].tps = parsed_data[p].tps]_vars

\* The take-profits are 7 and x: 7 was sent, x was never looked at, the Order
\* was executed and still holds both.
C18_Witness ==
    \E c \in backendCalls :
        /\ orders[c.id].tps = Some(<<<<"7">>, <<"x">>>>)
        /\ c.tp = Some(700)
        /\ c.request_tp = Some(700)
        /\ orders[c.id].status = "executed"

\* C19 -- Exclusive ownership.  Under any interleaving, an Order has at most
\* one owner, the invocation that inserted it under its own key; every status
\* write is made by the owner of the Order written, and a row changes only in
\* a step of its owner.
C19_ExclusiveOwnership ==
    /\ [](\A w \in statusWrites : Owns(w.by, w.id))
    /\ [](\A p, q \in Procs, i \in Rows : (Owns(p, i) /\ Owns(q, i)) => p = q)
    /\ [](\A p \in Procs, i \in Rows :
             Owns(p, i) => orders[i].telegram_message_id = Str(msg_id[p]))
    /\ [][\A i \in Rows : orders'[i] # orders[i] =>
             \E p \in Procs : /\ Owns(p, i)
                              /\ pc'[p] # pc[p]
                              /\ new_order_id'[p] = new_order_id[p]]_vars

\* Two invocations ran interleaved on two keys; each wrote its own Order.
C19_Witness ==
    \E i, j \in Rows :
        /\ i # j
        /\ Owns(1, i)
        /\ Owns(2, j)
        /\ pc[1] = "end"
        /\ pc[2] = "return_invalid_sl"
        /\ statusWrites = {[by |-> 1, id |-> i, status |-> "executed"],
                           [by |-> 2, id |-> j, status |-> "failed"]}

\* C20 -- update_order_status on a stored Order sets status to the argument,
\* sets mt5_order_id, executed_price and status_message when the argument is
\* not None and keeps them otherwise, keeps the fields it has no argument for
\* (executed_time apart), and changes no other Order.
C20_UpdateFrame ==
    [][(dbRet'.n = dbRet.n + 1 /\ dbRet'.op = "update" /\ dbRet'.id \in Rows) =>
          LET i == dbRet'.id
              a == dbRet'.args
          IN  /\ Len(orders') = Len(orders)
              /\ \A j \in Rows : j # i => orders'[j] = orders[j]
              /\ orders'[i].status = dbRet'.status
              /\ orders'[i].mt5_order_id =
                     IF a.mt5 = None THEN orders[i].mt5_order_id ELSE a.mt5
              /\ orders'[i].executed_price =
                     IF a.price = None THEN orders[i].executed_price ELSE a.price
              /\ orders'[i].status_message =
                     IF a.msg = None THEN orders[i].status_message ELSE a.msg
              /\ orders'[i].telegram_message_id = orders[i].telegram_message_id
              /\ orders'[i].action = orders[i].action
              /\ orders'[i].tps = orders[i].tps
              /\ orders'[i].sl = orders[i].sl
              /\ orders'[i].volume = orders[i].volume]_vars

\* With two Orders stored, an update gave only a price: the order id of an
\* earlier update is still there, the status is the new one.
C20_Witness ==
    /\ Len(orders) = 2
    /\ dbRet.op = "update"
    /\ dbRet.id \in Rows
    /\ dbRet.args = [mt5 |-> None, price |-> Some(750), msg |-> None]
    /\ dbRet.status = "failed"
    /\ orders[dbRet.id].status = "failed"
    /\ orders[dbRet.id].mt5_order_id = Some(55)
    /\ orders[dbRet.id].executed_price = Some(750)
    /\ orders[dbRet.id].status_message = None

\* C21 -- update_order_status with an order id that is not in the store returns
\* None (it does not raise) and leaves the store as it was: no Order is
\* changed and none is created.
C21_UnknownOrder ==
    [][(dbRet'.n = dbRet.n + 1 /\ dbRet'.op = "update" /\ dbRet'.id \notin Rows) =>
          /\ dbRet'.ret = "None"
          /\ orders' = orders]_vars

\* Two Orders are stored, one of them already executed; an update of order 3
\* returned None.
C21_Witness ==
    /\ Len(orders) = 2
    /\ \E i \in Rows : orders[i].status = "executed"
    /\ dbRet.op = "update"
    /\ dbRet.id = 3
    /\ dbRet.status = "failed"
    /\ dbRet.ret = "None"

\* ---------------------------------------------------- parse_message claims
Returned    == bot_pc = "returned"
Stripped(i) == Strip(lines[i])
HeaderNos   == {i \in 1..Len(lines) : ~IsNone(HeaderMatch(Stripped(i)))}
TpNos       == {i \in 1..Len(lines) : ~IsNone(TpMatch(Stripped(i)))}
SlNos       == {i \in 1..Len(lines) : ~IsNone(SlMatch(Stripped(i)))}
Signal      == Val(parse_ret)

\* The k-th smallest element of S.
Kth(S, k) == CHOOSE i \in S : Cardinality({j \in S : j <= i}) = k

\* The values of the take-profit lines, in the order of the lines.
TpValues == [k \in 1..Cardinality(TpNos) |-> Val(TpMatch(Stripped(Kth(TpNos, k))))]

\* C22 -- For a message in which no line matches the header pattern,
\* parse_message returns None, whatever take-profit and stop-loss lines the
\* message has.
C22_NoHeader == (Returned /\ HeaderNos = {}) => parse_ret = None

\* A near header, a take-profit and a stop-loss line, no header: both values
\* were collected and None was returned.
C22_Witness ==
    /\ Returned
    /\ HeaderNos = {}
    /\ \E i \in 1..Len(lines) : lines[i] \in NearHeaderLines
    /\ TpNos # {}
    /\ SlNos # {}
    /\ Len(Val(bot_data.tps)) > 0
    /\ bot_data.sl # None
    /\ parse_ret = None

\* C23 -- Only the first header line is honoured: instrument, action and
\* entry range are those of the first line that matches the header pattern;
\* a header line is no take-profit or stop-loss line, the take-profits are as
\* many as the take-profit lines, and a stop-loss is there exactly when there
\* is a stop-loss line.
C23_FirstHeader ==
    (Returned /\ HeaderNos # {}) =>
        LET h == Val(HeaderMatch(Stripped(SetMin(HeaderNos))))
        IN  /\ parse_ret # None
            /\ Signal.instrument = Some(StrUpper(h.instrument))
            /\ Signal.action = Some(Capitalize(h.action))
            /\ Signal.entry_range = Some(ReSubHyphen(h.entry_range))
            /\ HeaderNos \cap (TpNos \cup SlNos) = {}
            /\ (IF IsNone(Signal.tps) THEN 0 ELSE Len(Val(Signal.tps))) = Cardinality(TpNos)
            /\ IsNone(Signal.sl) <=> SlNos = {}

\* A GOLD Sell header, then an eu buy header with another range: the Signal
\* is the GOLD one.
C23_Witness ==
    /\ Returned
    /\ Len(lines) >= 2
    /\ lines[1] = PrefixUpper \o Range(<<"1", ".", "5">>, 0, 0, <<"2">>)
    /\ lines[2] = PrefixLower \o Range(<<"1", ".", "5">>, 2, 0, <<"2", "0", ".">>) \o <<" ">>
    /\ HeaderNos = {1, 2}
    /\ parse_ret # None
    /\ Signal.instrument = Some(<<"G", "O", "L", "D">>)
    /\ Signal.action = Some(<<"S", "e", "l", "l">>)
    /\ Signal.entry_range = Some(<<"1", ".", "5", "-", "2">>)

\* C24 -- For a message with a header, tps is the sequence of the values of
\* all take-profit lines in the order of the lines, one per line, wherever
\* the lines stand relative to the header and the stop-loss line.
C24_TakeProfits ==
    (Returned /\ HeaderNos # {} /\ TpNos # {}) =>
        /\ parse_ret # None
        /\ Signal.tps = Some(TpValues)

\* Take-profit 7, stop-loss, take-profit 8.5, header: both take-profits, in
\* that order.
C24_Witness ==
    /\ Returned
    /\ Len(lines) = 4
    /\ TpNos = {1, 3}
    /\ SlNos = {2}
    /\ HeaderNos = {4}
    /\ parse_ret # None
    /\ Signal.tps = Some(<< <<"7">>, <<"8", ".", "5">> >>)

\* C25 -- For a message with a header and stop-loss lines, sl is the value of
\* the last stop-loss line of the message.
C25_LastStopLoss ==
    (Returned /\ HeaderNos # {} /\ SlNos # {}) =>
        /\ parse_ret # None
        /\ Signal.sl = Some(Val(SlMatch(Stripped(SetMax(SlNos)))))

\* Stop-loss 9 before the header, stop-loss 3.5 after a take-profit: 3.5.
C25_Witness ==
    /\ Returned
    /\ Len(lines) = 4
    /\ SlMatch(Stripped(1)) = Some(<<"9">>)
    /\ HeaderNos = {2}
    /\ TpNos = {3}
    /\ SlMatch(Stripped(4)) = Some(<<"3", ".", "5">>)
    /\ parse_ret # None
    /\ Signal.sl = Some(<<"3", ".", "5">>)

\* C26 -- For a message with a header line, whatever the case of the
\* instrument and action on it, the instrument returned is all upper-case
\* letters and the action is exactly Buy or Sell.
C26_Normalized ==
    (Returned /\ HeaderNos # {}) =>
        /\ parse_ret # None
        /\ \A i \in 1..Len(Val(Signal.instrument)) :
              \E k \in DOMAIN UpperCase : Val(Signal.instrument)[i] = UpperCase[k]
        /\ Val(Signal.action) \in {<<"B", "u", "y">>, <<"S", "e", "l", "l">>}

\* The header reads `eu bUY`: the Signal reads EU, Buy.
C26_Witness ==
    /\ Returned
    /\ HeaderNos # {}
    /\ Val(HeaderMatch(Stripped(SetMin(HeaderNos)))).instrument = <<"e", "u">>
    /\ Val(HeaderMatch(Stripped(SetMin(HeaderNos)))).action = <<"b", "U", "Y">>
    /\ parse_ret # None
    /\ Signal.instrument = Some(<<"E", "U">>)
    /\ Signal.action = Some(<<"B", "u", "y">>)

\* The numbers an entry range is written with.
RangeLows  == {<<"1", ".", "5">>}
RangeHighs == {<<"2">>, <<"2", "0", ".">>}

\* C27 -- Entry-range normalisation: a header whose range is written low,
\* any space, hyphen, any space, high yields the entry range low-high, the
\* same for every amount of space, with the digits as written; the entry
\* range returned has no white space and normalising it again changes nothing.
C27_EntryRange ==
    Returned =>
        LET first == IF HeaderNos = {} THEN <<>> ELSE Stripped(SetMin(HeaderNos))
            er    == Val(Signal.entry_range)
        IN  /\ \A pre \in {PrefixUpper, PrefixLower}, low \in RangeLows,
                  high \in RangeHighs, x, y \in 0..2 :
                  first = Strip(pre \o Range(low, x, y, high)) =>
                      (parse_ret # None /\ er = low \o <<"-">> \o high)
            /\ parse_ret # None =>
                  /\ \A i \in 1..Len(er) : er[i] \notin Whitespace
                  /\ ReSubHyphen(er) = er

\* The header has the range `1.5 -  2`: the Signal has 1.5-2.
C27_Witness ==
    /\ Returned
    /\ Len(lines) >= 1
    /\ lines[1] = PrefixUpper \o Range(<<"1", ".", "5">>, 1, 2, <<"2">>)
    /\ parse_ret # None
    /\ Signal.entry_range = Some(<<"1", ".", "5", "-", "2">>)

PoReturned == po_pc = "returned"
PoType     == Mt5OrderType(po_args.order_type)
PoResult   == Val(po_ret)

\* C29 -- place_order request construction.  A request is sent exactly when
\* the symbol and a tick are there, the order type is BUY or SELL and the
\* price of its side is a number other than zero; a BUY request carries the
\* ask and a SELL request the bid of the tick; an sl or tp of None is not in
\* the request and a positive one is in it unchanged; for another order type
\* nothing is sent and the result has an error and no order id.
C29_Request ==
    /\ \A k \in 1..Len(sent) :
          /\ PoType = Some("ORDER_TYPE_BUY") =>
                (sent[k].type = "ORDER_TYPE_BUY" /\ Some(sent[k].price) = Val(current_tick).ask)
          /\ PoType = Some("ORDER_TYPE_SELL") =>
                (sent[k].type = "ORDER_TYPE_SELL" /\ Some(sent[k].price) = Val(current_tick).bid)
          /\ po_args.sl = None => sent[k].sl = None
          /\ po_args.tp = None => sent[k].tp = None
          /\ (po_args.sl # None /\ Val(po_args.sl) > 0) => sent[k].sl = po_args.sl
          /\ (po_args.tp # None /\ Val(po_args.tp) > 0) => sent[k].tp = po_args.tp
          /\ sent[k].volume = po_args.volume
    /\ (PoReturned /\ PoType = None) =>
          /\ sent = <<>>
          /\ po_ret # None
          /\ PoResult.error # None
          /\ PoResult.order_id = None
    /\ PoReturned =>
          ( Len(sent) = 1 <=>
              /\ symbol_info # None
              /\ current_tick # None
              /\ PoType # None
              /\ LET side == IF PoType = Some("ORDER_TYPE_BUY")
                             THEN Val(current_tick).ask ELSE Val(current_tick).bid
                 IN  side # None /\ Val(side) # 0 )
    /\ Len(sent) <= 1

\* A `buy` with a take-profit and no stop-loss: sent at the ask, with the
\* take-profit only.
C29_Witness ==
    /\ PoReturned
    /\ po_args.order_type = <<"b", "u", "y">>
    /\ po_args.sl = None
    /\ po_args.tp = Some(750)
    /\ current_tick = Some([ask |-> Some(120), bid |-> Some(110)])
    /\ sent = << [type |-> "ORDER_TYPE_BUY", volume |-> 1, price |-> 120,
                  sl |-> None, tp |-> Some(750)] >>
    /\ po_ret # None
    /\ PoResult.error = None
    /\ PoResult.order_id = Some(55)

CallCount(name) ==
    Cardinality({i \in 1..Len(mt5_calls) : mt5_calls[i] = name})

\* The symbol was not visible at first and selecting it succeeded: the call
\* went on past the re-fetch and sent an order.
SelectedAndSent ==
    /\ PoReturned
    /\ CallCount("symbol_select") > 0
    /\ sent # <<>>

\* C31 -- Symbol selection.  When the symbol is not visible at first and
\* selecting it succeeds, place_order calls symbol_select exactly once, queries
\* symbol_info exactly three times and sends exactly one order.
C31_SymbolSelected ==
    SelectedAndSent =>
        /\ CallCount("symbol_select") = 1
        /\ CallCount("symbol_info") = 3
        /\ Len(sent) = 1

\* The key (sourceMessageId) of the Order a place_order call was made for.
KeyOf(c) == orders[c.id].telegram_message_id

\* Invocation p makes its place_order call in this step.
Invokes(p) == pc[p] = "resolve" /\ pc'[p] = "called"

\* C32 -- At-most-once execution.  Over any interleaving of invocations the
\* backend is called at most once per key: no two place_order calls are for
\* Orders of one key, a call is made only for a key no call was made for
\* before, and an Order that ended failed or error gets no second call from a
\* resubmission of its key.
C32_AtMostOnce ==
    /\ [](\A c, d \in backendCalls : KeyOf(c) = KeyOf(d) => c = d)
    /\ [][ /\ backendCalls' # backendCalls => \E p \in Procs : Invokes(p)
           /\ \A p \in Procs : Invokes(p) =>
                 /\ \A c \in backendCalls : KeyOf(c) # Str(msg_id[p])
                 /\ Cardinality(backendCalls') = Cardinality(backendCalls) + 1
                 /\ \A q \in Procs \ {p} : pc'[q] = pc[q] ]_vars

\* The key "7" was resubmitted after its Order had ended failed on a backend
\* failure: the second invocation returned as a duplicate and the one call
\* made for the key is the first invocation's.
C32_Witness ==
    \E p, q \in Procs, i \in Rows :
        /\ p # q
        /\ pc[p] = "end"
        /\ Owns(p, i)
        /\ orders[i].status = "failed"
        /\ pc[q] = "return_duplicate"
        /\ Str(msg_id[q]) = orders[i].telegram_message_id
        /\ Cardinality(CallsFor(i)) = 1
        /\ CallsBy(q) = {}

\* C33 -- Persist before execute.  When an invocation calls place_order, the
\* Order the call is for was inserted by that invocation under the
\* invocation's key, is in the table, and its persisted status is pending at
\* that moment; no call is ever for an Order that is not in the table.
C33_PersistedFirst ==
    /\ [](\A c \in backendCalls : c.id \in Rows /\ Owns(c.by, c.id))
    /\ [][\A p \in Procs : Invokes(p) =>
              \E i \in Rows :
                  /\ Owns(p, i)
                  /\ orders[i].telegram_message_id = Str(msg_id[p])
                  /\ orders[i].status = "pending"
                  /\ orders' = orders
                  /\ \A c \in backendCalls' \ backendCalls : c.by = p /\ c.id = i
                  /\ backendCalls' # backendCalls ]_vars

\* place_order is being called for the pending Order of one invocation while
\* the Order of another invocation has already been finalized.
C33_Witness ==
    \E p, q \in Procs, i, j \in Rows :
        /\ p # q
        /\ pc[p] = "called"
        /\ Owns(p, i)
        /\ orders[i].status = "pending"
        /\ CallsFor(i) # {}
        /\ Owns(q, j)
        /\ orders[j].status \in {"executed", "failed"}

Finalized == {"executed", "failed", "error"}

\* C34 -- Finalization.  Once the invocation that inserted an Order has
\* returned, the Order's persisted status is executed, failed or error, never
\* pending: with the worker between two signals, no Order is pending.
C34_Finalized ==
    pc[1] \in Exits => \A i \in Rows : orders[i].status \in Finalized

\* The status process_telegram_signal writes (logic.py 98-121) for what
\* place_order returned.
StatusFor(ret) == IF BackendSucceeded(ret) THEN "executed" ELSE "failed"

\* C35 -- Execution truthfulness.  What place_order returns leads to the
\* status executed only if order_send returned a result whose retcode is DONE
\* or PLACED; a failure result never leads to executed, whatever order
\* identifier it carries.
C35_Truthful ==
    (PoReturned /\ StatusFor(po_ret) = "executed") =>
        /\ ~IsNone(send_result)
        /\ Val(send_result).retcode \in {TRADE_RETCODE_DONE, TRADE_RETCODE_PLACED}
        /\ IsNone(PoResult.error)

\* C36 -- No lost execution.  Once the invocation has returned, an Order for
\* which place_order returned a success result (a result with an order id) is
\* executed: it is not pending, error or failed, also when the write of
\* `executed` raised.
C36_NoLostExecution ==
    \A p \in Procs : pc[p] \in Exits =>
        \A b \in backendReturns :
            (Owns(p, b.id) /\ CarriesOrderId(b.result)) =>
                orders[b.id].status = "executed"

\* C37 -- Record consistency.  An executed Order has a backend order id and an
\* execution time; a failed or error Order has a status message and no backend
\* order id, execution price or execution time; a pending Order has none of
\* the four.
C37_RecordConsistent ==
    \A i \in Rows :
        LET o == orders[i] IN
        /\ o.status = "executed" =>
              ~IsNone(o.mt5_order_id) /\ ~IsNone(o.executed_time)
        /\ o.status \in {"failed", "error"} =>
              /\ ~IsNone(o.status_message)
              /\ IsNone(o.mt5_order_id)
              /\ IsNone(o.executed_price)
              /\ IsNone(o.executed_time)
        /\ o.status = "pending" =>
              /\ IsNone(o.status_message)
              /\ IsNone(o.mt5_order_id)
              /\ IsNone(o.executed_price)
              /\ IsNone(o.executed_time)

\* The table holds an executed Order and an Order that the guard set to
\* error after place_order raised.
C37_Witness ==
    \E i, k \in Rows :
        /\ orders[i].status = "executed"
        /\ orders[i].mt5_order_id = Some(55)
        /\ orders[k].status = "error"
        /\ CallsFor(k) # {}

\* An Order whose stop-loss and first take-profit are both unparseable.
BothUnparseable(row) == UnparseableSl(row) /\ UnparseableFirstTp(row)

\* C38 -- Validation order.  The stop-loss is validated before the
\* take-profit: an Order whose stop-loss and first take-profit are both
\* unparseable is never sent to the backend and never gets the take-profit
\* message; with no collaborator failing its invocation returns from the
\* stop-loss check having written one status, failed, with a message that
\* names the stop-loss value; once failed the Order is not written again.
C38_SlBeforeTp ==
    /\ [](\A i \in Rows : BothUnparseable(orders[i]) =>
            /\ CallsFor(i) = {}
            /\ orders[i].status_message # TpMessage(Val(orders[i].tps)[1])
            /\ \A p \in Procs : (Owns(p, i) /\ pc[p] \in Exits /\ nfaults = 0) =>
                  /\ pc[p] = "return_invalid_sl"
                  /\ {w \in statusWrites : w.id = i} =
                         {[by |-> p, id |-> i, status |-> "failed"]}
                  /\ orders[i].status = "failed"
                  /\ orders[i].status_message = SlMessage(Val(orders[i].sl)))
    /\ [][\A i \in Rows :
            (BothUnparseable(orders[i]) /\ orders[i].status # "pending") =>
                orders'[i] = orders[i]]_vars

\* The Order with stop-loss "x" and take-profits "x", "7" was failed at the
\* stop-loss check.
C38_Witness ==
    \E i \in Rows :
        /\ Owns(1, i)
        /\ pc[1] = "return_invalid_sl"
        /\ orders[i].sl = Some(<<"x">>)
        /\ orders[i].tps = Some(<<<<"x">>, <<"7">>>>)
        /\ orders[i].status = "failed"
        /\ orders[i].status_message = SlMessage(<<"x">>)

\* C39 -- Single ingestion worker.  After any sequence of Start Bot and Stop
\* Bot clicks at most one bot polling thread is alive and delivering signals
\* to process_telegram_signal, and no signal is processed while the terminal
\* connection is shut down.
C39_SingleWorker ==
    /\ Cardinality(AliveThreads) <= 1
    /\ \A d \in delivered : d.connected

====
